---------------------------- MODULE Spec2Model ----------------------------
(***************************************************************************)
(* Model of the ERC3643 (T-REX) token program for Solana,                  *)
(* src/erc3643/solana-erc3643/src.                                         *)
(*                                                                         *)
(* One step of the model is one invocation of Processor::process: an       *)
(* instruction payload is decoded, routed to its handler, the handler's    *)
(* checks are evaluated in source order and its record writes are applied  *)
(* in source order.  A handler that returns an error or panics has written *)
(* nothing at that point of its code, so its list of writes is empty.      *)
(*                                                                         *)
(* Records are kept typed: Pack::unpack is modelled by its length check,   *)
(* its is_initialized check and the typed record it yields; the byte       *)
(* layout below that interface (Borsh) is outside src/.  u64 quantities    *)
(* are scaled to the range 0..U64_MAX so that checked arithmetic can       *)
(* overflow within the bounds.                                             *)
(***************************************************************************)
EXTENDS Integers, Sequences, FiniteSets, TLC

VARIABLES token, account, last, policy

vars == <<token, account, last, policy>>

---------------------------------------------------------------------------
(* Bounds *)

\* largest value of a (scaled) u64
U64_MAX == 2

---------------------------------------------------------------------------
(* Program constants *)

ACCOUNT_FROZEN_FLAG == 1
Token_LEN == 512
TokenAccount_LEN == 128
IdentityRegistry_LEN == 256
Compliance_LEN == 128
Agent_LEN == 64

\* declare_id!: the address the program is deployed at
program_id == "TREX"

---------------------------------------------------------------------------
(* Addresses and the ledger's account table *)

Wallets == {"alice", "bob"}
TokenSlots == {"T1", "T2"}
AcctSlots == {"A1", "A2", "A3"}
DefaultPubkey == "zero"

\* The program that owns each account.  The registry record is provisioned
\* for this program; the compliance record and the wallets are not.
OwnerOf(k) ==
    IF k \in TokenSlots \cup AcctSlots \cup {"REG", "STORE"} THEN program_id
    ELSE IF k = "RENT" THEN "sysvar"
    ELSE "other"

DataLenOf(k) ==
    IF k \in TokenSlots THEN Token_LEN
    ELSE IF k \in AcctSlots THEN TokenAccount_LEN
    ELSE IF k = "REG" THEN IdentityRegistry_LEN
    ELSE IF k = "CMP" THEN Compliance_LEN
    ELSE IF k = "STORE" THEN TokenAccount_LEN
    ELSE 0

\* The leading bytes of an account's data that is not held in the model's
\* state: the is_initialized flag and the Pubkey that follows it (Agent.key,
\* IdentityRegistry.owner, Compliance.owner all sit there).
Raw(init, k) == [is_initialized |-> init, key |-> k]
NoData == Raw(FALSE, DefaultPubkey)

StaticData(k) ==
    IF k \in {"REG", "CMP"} THEN Raw(TRUE, "alice") ELSE NoData

\* AccountInfo of ledger account k as passed to the program; exempt is
\* Rent::is_exempt(lamports, data_len) of the account
AccountInfo(k, signer) ==
    [key |-> k, is_signer |-> signer, owner |-> OwnerOf(k), exempt |-> TRUE,
     data_len |-> DataLenOf(k), data |-> StaticData(k)]

\* AccountInfo of a wallet-keyed account holding an Agent record written by
\* whoever controls it
AgentInfo(k, signer, agentKey) ==
    [key |-> k, is_signer |-> signer, owner |-> "other", exempt |-> TRUE,
     data_len |-> Agent_LEN, data |-> Raw(TRUE, agentKey)]

---------------------------------------------------------------------------
(* state.rs: records *)

ZeroToken ==
    [is_initialized |-> FALSE, owner |-> DefaultPubkey, name |-> 0, symbol |-> 0,
     decimals |-> 0, supply |-> 0, is_paused |-> FALSE,
     identity_registry |-> DefaultPubkey, compliance |-> DefaultPubkey]

\* A token provisioned in the paused state
PausedToken ==
    [is_initialized |-> TRUE, owner |-> "alice", name |-> 1, symbol |-> 3,
     decimals |-> 9, supply |-> 0, is_paused |-> TRUE,
     identity_registry |-> "REG", compliance |-> "CMP"]

TokenAccount(tok, owner, amount, state) ==
    [is_initialized |-> TRUE, token |-> tok, owner |-> owner, amount |-> amount,
     state |-> state]

\* The agent roster of a token.  AddAgent and RemoveAgent store nothing and
\* no record has a field for it: no address is ever registered.
agent_roster(tok) == {}

\* Token::is_agent
is_agent(tok, key) == key = tok.owner

\* IdentityRegistry::is_verified_address
is_verified_address(registry, address) == TRUE

\* IdentityRegistry::identity_exists
identity_exists(registry, address) == FALSE

\* a registry that takes every address for one of its agents
registry_is_agent_anyone(registry, key) == TRUE

\* IdentityRegistry::is_agent
registry_is_agent(registry, key) == key = registry.key

\* Compliance::check_transfer
check_transfer(compliance, from, to, amount) == TRUE

\* The identity and compliance predicates behind the gates.  SourcePolicy
\* stands for the predicates as state.rs implements them; a plugged policy
\* replaces them by a set of verified addresses and a transfer limit.
SourcePolicy == [plugged |-> FALSE, verified |-> {}, limit |-> 0]

\* an identity gate that lets every address through
identity_gate_open(st, registry, address) == TRUE

\* identity_registry.is_verified_address(&owner) as the handlers call it
identity_gate(st, registry, address) ==
    IF st.policy.plugged THEN address \in st.policy.verified
    ELSE is_verified_address(registry, address)

\* compliance.check_transfer(&from, &to, amount) as the handlers call it
compliance_gate(st, compliance, from, to, amount) ==
    IF st.policy.plugged THEN amount <= st.policy.limit
    ELSE check_transfer(compliance, from, to, amount)

\* an addition that wraps around modulo 2^64 instead of failing
wrapping_add(a, b) == (a + b) % (U64_MAX + 1)

\* u64::checked_add / checked_sub: -1 stands for None
checked_add(a, b) == IF a + b > U64_MAX THEN -1 ELSE a + b
checked_sub(a, b) == IF a < b THEN -1 ELSE a - b

\* a flag test that never finds the flag
frozen_bit_clear(state) == 0

\* state & ACCOUNT_FROZEN_FLAG, on the flag's bit
frozen_bit(state) == (state % (2 * ACCOUNT_FROZEN_FLAG)) \div ACCOUNT_FROZEN_FLAG

---------------------------------------------------------------------------
(* The record store as one handler invocation sees it *)

Store == [token |-> token, account |-> account, policy |-> policy]

\* The leading (is_initialized, Pubkey) of the data of account a
RawOf(st, a) ==
    IF a.key \in TokenSlots
      THEN Raw(st.token[a.key].is_initialized, st.token[a.key].owner)
    ELSE IF a.key \in AcctSlots
      THEN Raw(st.account[a.key].is_initialized, st.account[a.key].token)
    ELSE a.data

\* Pack::unpack: length check, then deserialize, then is_initialized
unpack(st, a, LEN) ==
    IF a.data_len # LEN THEN "InvalidAccountData"
    ELSE IF ~RawOf(st, a).is_initialized THEN "UninitializedAccount"
    ELSE "Ok"

\* Pack::pack: length check before the write
pack(a, LEN) == IF a.data_len # LEN THEN "InvalidAccountData" ELSE "Ok"

\* A handler's outcome: its result and the writes it made before returning.
\* Err is a return before the first write, Fail a return after some writes.
Err(e) == [res |-> e, writes |-> <<>>]
Fail(e, ws) == [res |-> e, writes |-> ws]
Ok(ws) == [res |-> "Ok", writes |-> ws]
Write(a, rec) == [slot |-> a.key, data |-> rec]

\* a store that keeps the first write of an invocation and loses the rest
Commit_first_write_only(st, ws) ==
    IF ws = <<>> THEN st
    ELSE IF Head(ws).slot \in TokenSlots
      THEN [st EXCEPT !.token[Head(ws).slot] = Head(ws).data]
    ELSE [st EXCEPT !.account[Head(ws).slot] = Head(ws).data]

\* The writes of one invocation, applied in the order the handler made them
RECURSIVE Commit(_, _)
Commit(st, ws) ==
    IF ws = <<>> THEN st
    ELSE LET w == Head(ws)
             st2 == IF w.slot \in TokenSlots
                    THEN [st EXCEPT !.token[w.slot] = w.data]
                    ELSE [st EXCEPT !.account[w.slot] = w.data]
         IN Commit(st2, Tail(ws))

---------------------------------------------------------------------------
(* instruction.rs: the payload decoder *)

Variants ==
    <<"InitializeToken", "Transfer", "ForcedTransfer", "Mint", "Burn", "Recover",
      "FreezeAddress", "UnfreezeAddress", "SetCompliance", "SetIdentityRegistry",
      "AddAgent", "RemoveAgent", "Pause", "Unpause", "RegisterIdentity",
      "UpdateIdentity", "UpdateCountry", "DeleteIdentity", "AddClaimTopic",
      "RemoveClaimTopic", "AddTrustedIssuer", "RemoveTrustedIssuer",
      "UpdateIssuerClaimTopics", "AddComplianceRule", "RemoveComplianceRule">>

\* number of fixed-size fields of each variant; -1 marks a Vec<u64> field
FieldCount(v) ==
    IF v = "InitializeToken" THEN 3
    ELSE IF v = "RegisterIdentity" THEN 2
    ELSE IF v \in {"Transfer", "ForcedTransfer", "Mint", "Burn", "Recover",
                   "UpdateIdentity", "UpdateCountry", "AddClaimTopic",
                   "RemoveClaimTopic"} THEN 1
    ELSE IF v \in {"AddTrustedIssuer", "UpdateIssuerClaimTopics"} THEN -1
    ELSE 0

DecodeError == [ok |-> FALSE, variant |-> "none", args |-> <<>>]

\* TokenInstruction::try_from_slice: the payload is a tag followed by the
\* variant's fields (one element per field; a Vec is its length and then
\* its elements).  Unknown tag, missing field and unread trailing data fail.
try_from_slice(input) ==
    IF Len(input) = 0 THEN DecodeError
    ELSE IF input[1] \notin 0..(Len(Variants) - 1) THEN DecodeError
    ELSE LET v == Variants[input[1] + 1]
             n == FieldCount(v)
         IN IF n >= 0
            THEN IF Len(input) = 1 + n
                 THEN [ok |-> TRUE, variant |-> v, args |-> Tail(input)]
                 ELSE DecodeError
            ELSE IF Len(input) >= 2 /\ Len(input) = 2 + input[2]
                 THEN [ok |-> TRUE, variant |-> v, args |-> Tail(input)]
                 ELSE DecodeError

---------------------------------------------------------------------------
(* processor.rs: handlers.  Each yields its result and its writes. *)

\* process_initialize_token that creates the token paused
process_initialize_token_paused(st, accounts, name, symbol, decimals) ==
    IF Len(accounts) < 5 THEN Err("NotEnoughAccountKeys")
    ELSE
    LET token_account_info == accounts[1]
        rent_info == accounts[2]
        owner_info == accounts[3]
        identity_registry_info == accounts[4]
        compliance_info == accounts[5]
        tok == [is_initialized |-> TRUE, owner |-> owner_info.key, name |-> name,
                symbol |-> symbol, decimals |-> decimals, supply |-> 0,
                is_paused |-> TRUE,
                identity_registry |-> identity_registry_info.key,
                compliance |-> compliance_info.key]
    IN
    IF token_account_info.owner # program_id THEN Err("IncorrectProgramId")
    ELSE IF rent_info.key # "RENT" THEN Err("InvalidArgument")
    ELSE IF ~token_account_info.exempt THEN Err("NotRentExempt")
    ELSE IF pack(token_account_info, Token_LEN) # "Ok"
      THEN Err(pack(token_account_info, Token_LEN))
    ELSE Ok(<<Write(token_account_info, tok)>>)

\* process_initialize_token that stores the registry and the compliance
\* addresses in each other's field
process_initialize_token_swapped(st, accounts, name, symbol, decimals) ==
    IF Len(accounts) < 5 THEN Err("NotEnoughAccountKeys")
    ELSE
    LET token_account_info == accounts[1]
        rent_info == accounts[2]
        owner_info == accounts[3]
        identity_registry_info == accounts[4]
        compliance_info == accounts[5]
        tok == [is_initialized |-> TRUE, owner |-> owner_info.key, name |-> name,
                symbol |-> symbol, decimals |-> decimals, supply |-> 0,
                is_paused |-> FALSE,
                identity_registry |-> compliance_info.key,
                compliance |-> identity_registry_info.key]
    IN
    IF token_account_info.owner # program_id THEN Err("IncorrectProgramId")
    ELSE IF rent_info.key # "RENT" THEN Err("InvalidArgument")
    ELSE IF ~token_account_info.exempt THEN Err("NotRentExempt")
    ELSE IF pack(token_account_info, Token_LEN) # "Ok"
      THEN Err(pack(token_account_info, Token_LEN))
    ELSE Ok(<<Write(token_account_info, tok)>>)

process_initialize_token(st, accounts, name, symbol, decimals) ==
    IF Len(accounts) < 5 THEN Err("NotEnoughAccountKeys")
    ELSE
    LET token_account_info == accounts[1]
        rent_info == accounts[2]
        owner_info == accounts[3]
        identity_registry_info == accounts[4]
        compliance_info == accounts[5]
        tok == [is_initialized |-> TRUE, owner |-> owner_info.key, name |-> name,
                symbol |-> symbol, decimals |-> decimals, supply |-> 0,
                is_paused |-> FALSE,
                identity_registry |-> identity_registry_info.key,
                compliance |-> compliance_info.key]
    IN
    IF token_account_info.owner # program_id THEN Err("IncorrectProgramId")
    ELSE IF rent_info.key # "RENT" THEN Err("InvalidArgument")
    ELSE IF ~token_account_info.exempt THEN Err("NotRentExempt")
    ELSE IF pack(token_account_info, Token_LEN) # "Ok"
      THEN Err(pack(token_account_info, Token_LEN))
    ELSE Ok(<<Write(token_account_info, tok)>>)

\* process_transfer that debits the source before it consults compliance
process_transfer_debit_first(st, accounts, amount) ==
    IF Len(accounts) < 6 THEN Err("NotEnoughAccountKeys")
    ELSE
    LET owner_info == accounts[1]
        source_account_info == accounts[2]
        destination_account_info == accounts[3]
        token_info == accounts[4]
        identity_registry_info == accounts[5]
        compliance_info == accounts[6]
    IN
    IF \/ source_account_info.owner # program_id
       \/ destination_account_info.owner # program_id
       \/ token_info.owner # program_id
      THEN Err("IncorrectProgramId")
    ELSE IF ~owner_info.is_signer THEN Err("MissingRequiredSignature")
    ELSE IF unpack(st, token_info, Token_LEN) # "Ok"
      THEN Err(unpack(st, token_info, Token_LEN))
    ELSE IF unpack(st, source_account_info, TokenAccount_LEN) # "Ok"
      THEN Err(unpack(st, source_account_info, TokenAccount_LEN))
    ELSE IF unpack(st, destination_account_info, TokenAccount_LEN) # "Ok"
      THEN Err(unpack(st, destination_account_info, TokenAccount_LEN))
    ELSE
    LET tok == st.token[token_info.key]
        source_account == st.account[source_account_info.key]
        dest_account == st.account[destination_account_info.key]
        registry == RawOf(st, identity_registry_info)
        compliance == RawOf(st, compliance_info)
        src_amount == checked_sub(source_account.amount, amount)
        dst_amount == checked_add(dest_account.amount, amount)
    IN
    IF tok.is_paused THEN Err("TokenPaused")
    ELSE IF source_account.owner # owner_info.key THEN Err("InvalidOwner")
    ELSE IF frozen_bit(source_account.state) # 0 THEN Err("AddressFrozen")
    ELSE IF frozen_bit(dest_account.state) # 0 THEN Err("AddressFrozen")
    ELSE IF unpack(st, identity_registry_info, IdentityRegistry_LEN) # "Ok"
      THEN Err(unpack(st, identity_registry_info, IdentityRegistry_LEN))
    ELSE IF ~identity_gate(st, registry, source_account.owner)
      THEN Err("IdentityNotVerified")
    ELSE IF ~identity_gate(st, registry, dest_account.owner)
      THEN Err("IdentityNotVerified")
    ELSE IF unpack(st, compliance_info, Compliance_LEN) # "Ok"
      THEN Err(unpack(st, compliance_info, Compliance_LEN))
    ELSE IF ~compliance_gate(st, compliance, source_account.owner, dest_account.owner, amount)
      THEN Fail("TransferNotCompliant",
                IF src_amount < 0 THEN <<>>
                ELSE <<Write(source_account_info, [source_account EXCEPT !.amount = src_amount])>>)
    ELSE IF source_account.amount < amount THEN Err("InsufficientFunds")
    ELSE IF src_amount < 0 \/ dst_amount < 0 THEN Err("Panic")
    ELSE IF pack(source_account_info, TokenAccount_LEN) # "Ok"
      THEN Err(pack(source_account_info, TokenAccount_LEN))
    ELSE IF pack(destination_account_info, TokenAccount_LEN) # "Ok"
      THEN Fail(pack(destination_account_info, TokenAccount_LEN),
                <<Write(source_account_info, [source_account EXCEPT !.amount = src_amount])>>)
    ELSE Ok(<<Write(source_account_info, [source_account EXCEPT !.amount = src_amount]),
              Write(destination_account_info, [dest_account EXCEPT !.amount = dst_amount])>>)

\* process_transfer with the freeze checks made before the pause check
process_transfer_freeze_first(st, accounts, amount) ==
    IF Len(accounts) < 6 THEN Err("NotEnoughAccountKeys")
    ELSE
    LET owner_info == accounts[1]
        source_account_info == accounts[2]
        destination_account_info == accounts[3]
        token_info == accounts[4]
        identity_registry_info == accounts[5]
        compliance_info == accounts[6]
    IN
    IF \/ source_account_info.owner # program_id
       \/ destination_account_info.owner # program_id
       \/ token_info.owner # program_id
      THEN Err("IncorrectProgramId")
    ELSE IF ~owner_info.is_signer THEN Err("MissingRequiredSignature")
    ELSE IF unpack(st, token_info, Token_LEN) # "Ok"
      THEN Err(unpack(st, token_info, Token_LEN))
    ELSE IF unpack(st, source_account_info, TokenAccount_LEN) # "Ok"
      THEN Err(unpack(st, source_account_info, TokenAccount_LEN))
    ELSE IF unpack(st, destination_account_info, TokenAccount_LEN) # "Ok"
      THEN Err(unpack(st, destination_account_info, TokenAccount_LEN))
    ELSE
    LET tok == st.token[token_info.key]
        source_account == st.account[source_account_info.key]
        dest_account == st.account[destination_account_info.key]
        registry == RawOf(st, identity_registry_info)
        compliance == RawOf(st, compliance_info)
        src_amount == checked_sub(source_account.amount, amount)
        dst_amount == checked_add(dest_account.amount, amount)
    IN
    IF frozen_bit(source_account.state) # 0 THEN Err("AddressFrozen")
    ELSE IF frozen_bit(dest_account.state) # 0 THEN Err("AddressFrozen")
    ELSE IF tok.is_paused THEN Err("TokenPaused")
    ELSE IF source_account.owner # owner_info.key THEN Err("InvalidOwner")
    ELSE IF unpack(st, identity_registry_info, IdentityRegistry_LEN) # "Ok"
      THEN Err(unpack(st, identity_registry_info, IdentityRegistry_LEN))
    ELSE IF ~identity_gate(st, registry, source_account.owner)
      THEN Err("IdentityNotVerified")
    ELSE IF ~identity_gate(st, registry, dest_account.owner)
      THEN Err("IdentityNotVerified")
    ELSE IF unpack(st, compliance_info, Compliance_LEN) # "Ok"
      THEN Err(unpack(st, compliance_info, Compliance_LEN))
    ELSE IF ~compliance_gate(st, compliance, source_account.owner, dest_account.owner, amount)
      THEN Err("TransferNotCompliant")
    ELSE IF source_account.amount < amount THEN Err("InsufficientFunds")
    ELSE IF src_amount < 0 \/ dst_amount < 0 THEN Err("Panic")
    ELSE IF pack(source_account_info, TokenAccount_LEN) # "Ok"
      THEN Err(pack(source_account_info, TokenAccount_LEN))
    ELSE IF pack(destination_account_info, TokenAccount_LEN) # "Ok"
      THEN Fail(pack(destination_account_info, TokenAccount_LEN),
                <<Write(source_account_info, [source_account EXCEPT !.amount = src_amount])>>)
    ELSE Ok(<<Write(source_account_info, [source_account EXCEPT !.amount = src_amount]),
              Write(destination_account_info, [dest_account EXCEPT !.amount = dst_amount])>>)

process_transfer(st, accounts, amount) ==
    IF Len(accounts) < 6 THEN Err("NotEnoughAccountKeys")
    ELSE
    LET owner_info == accounts[1]
        source_account_info == accounts[2]
        destination_account_info == accounts[3]
        token_info == accounts[4]
        identity_registry_info == accounts[5]
        compliance_info == accounts[6]
    IN
    IF \/ source_account_info.owner # program_id
       \/ destination_account_info.owner # program_id
       \/ token_info.owner # program_id
      THEN Err("IncorrectProgramId")
    ELSE IF ~owner_info.is_signer THEN Err("MissingRequiredSignature")
    ELSE IF unpack(st, token_info, Token_LEN) # "Ok"
      THEN Err(unpack(st, token_info, Token_LEN))
    ELSE IF unpack(st, source_account_info, TokenAccount_LEN) # "Ok"
      THEN Err(unpack(st, source_account_info, TokenAccount_LEN))
    ELSE IF unpack(st, destination_account_info, TokenAccount_LEN) # "Ok"
      THEN Err(unpack(st, destination_account_info, TokenAccount_LEN))
    ELSE
    LET tok == st.token[token_info.key]
        source_account == st.account[source_account_info.key]
        dest_account == st.account[destination_account_info.key]
        registry == RawOf(st, identity_registry_info)
        compliance == RawOf(st, compliance_info)
        src_amount == checked_sub(source_account.amount, amount)
        dst_amount == checked_add(dest_account.amount, amount)
    IN
    IF tok.is_paused THEN Err("TokenPaused")
    ELSE IF source_account.owner # owner_info.key THEN Err("InvalidOwner")
    ELSE IF frozen_bit(source_account.state) # 0 THEN Err("AddressFrozen")
    ELSE IF frozen_bit(dest_account.state) # 0 THEN Err("AddressFrozen")
    ELSE IF unpack(st, identity_registry_info, IdentityRegistry_LEN) # "Ok"
      THEN Err(unpack(st, identity_registry_info, IdentityRegistry_LEN))
    ELSE IF ~identity_gate(st, registry, source_account.owner)
      THEN Err("IdentityNotVerified")
    ELSE IF ~identity_gate(st, registry, dest_account.owner)
      THEN Err("IdentityNotVerified")
    ELSE IF unpack(st, compliance_info, Compliance_LEN) # "Ok"
      THEN Err(unpack(st, compliance_info, Compliance_LEN))
    ELSE IF ~compliance_gate(st, compliance, source_account.owner, dest_account.owner, amount)
      THEN Err("TransferNotCompliant")
    ELSE IF source_account.amount < amount THEN Err("InsufficientFunds")
    ELSE IF src_amount < 0 \/ dst_amount < 0 THEN Err("Panic")
    ELSE IF pack(source_account_info, TokenAccount_LEN) # "Ok"
      THEN Err(pack(source_account_info, TokenAccount_LEN))
    ELSE IF pack(destination_account_info, TokenAccount_LEN) # "Ok"
      THEN Fail(pack(destination_account_info, TokenAccount_LEN),
                <<Write(source_account_info, [source_account EXCEPT !.amount = src_amount])>>)
    ELSE Ok(<<Write(source_account_info, [source_account EXCEPT !.amount = src_amount]),
              Write(destination_account_info, [dest_account EXCEPT !.amount = dst_amount])>>)

\* process_forced_transfer without the balance check and with a debit that
\* stops at zero
process_forced_transfer_overdraw(st, accounts, amount) ==
    IF Len(accounts) < 6 THEN Err("NotEnoughAccountKeys")
    ELSE
    LET agent_info == accounts[1]
        source_account_info == accounts[2]
        destination_account_info == accounts[3]
        token_info == accounts[4]
        identity_registry_info == accounts[5]
        compliance_info == accounts[6]
    IN
    IF \/ source_account_info.owner # program_id
       \/ destination_account_info.owner # program_id
       \/ token_info.owner # program_id
      THEN Err("IncorrectProgramId")
    ELSE IF ~agent_info.is_signer THEN Err("MissingRequiredSignature")
    ELSE IF unpack(st, token_info, Token_LEN) # "Ok"
      THEN Err(unpack(st, token_info, Token_LEN))
    ELSE IF unpack(st, source_account_info, TokenAccount_LEN) # "Ok"
      THEN Err(unpack(st, source_account_info, TokenAccount_LEN))
    ELSE IF unpack(st, destination_account_info, TokenAccount_LEN) # "Ok"
      THEN Err(unpack(st, destination_account_info, TokenAccount_LEN))
    ELSE IF unpack(st, agent_info, Agent_LEN) # "Ok"
      THEN Err(unpack(st, agent_info, Agent_LEN))
    ELSE
    LET tok == st.token[token_info.key]
        source_account == st.account[source_account_info.key]
        dest_account == st.account[destination_account_info.key]
        agent == RawOf(st, agent_info)
        registry == RawOf(st, identity_registry_info)
        compliance == RawOf(st, compliance_info)
        src_amount == IF source_account.amount < amount THEN 0
                      ELSE source_account.amount - amount
        dst_amount == checked_add(dest_account.amount, amount)
    IN
    IF ~is_agent(tok, agent.key) THEN Err("InvalidAgent")
    ELSE IF tok.is_paused THEN Err("TokenPaused")
    ELSE IF unpack(st, identity_registry_info, IdentityRegistry_LEN) # "Ok"
      THEN Err(unpack(st, identity_registry_info, IdentityRegistry_LEN))
    ELSE IF ~identity_gate(st, registry, source_account.owner)
      THEN Err("IdentityNotVerified")
    ELSE IF ~identity_gate(st, registry, dest_account.owner)
      THEN Err("IdentityNotVerified")
    ELSE IF unpack(st, compliance_info, Compliance_LEN) # "Ok"
      THEN Err(unpack(st, compliance_info, Compliance_LEN))
    ELSE IF ~compliance_gate(st, compliance, source_account.owner, dest_account.owner, amount)
      THEN Err("TransferNotCompliant")
    ELSE IF src_amount < 0 \/ dst_amount < 0 THEN Err("Panic")
    ELSE IF pack(source_account_info, TokenAccount_LEN) # "Ok"
      THEN Err(pack(source_account_info, TokenAccount_LEN))
    ELSE IF pack(destination_account_info, TokenAccount_LEN) # "Ok"
      THEN Fail(pack(destination_account_info, TokenAccount_LEN),
                <<Write(source_account_info, [source_account EXCEPT !.amount = src_amount])>>)
    ELSE Ok(<<Write(source_account_info, [source_account EXCEPT !.amount = src_amount]),
              Write(destination_account_info, [dest_account EXCEPT !.amount = dst_amount])>>)

process_forced_transfer(st, accounts, amount) ==
    IF Len(accounts) < 6 THEN Err("NotEnoughAccountKeys")
    ELSE
    LET agent_info == accounts[1]
        source_account_info == accounts[2]
        destination_account_info == accounts[3]
        token_info == accounts[4]
        identity_registry_info == accounts[5]
        compliance_info == accounts[6]
    IN
    IF \/ source_account_info.owner # program_id
       \/ destination_account_info.owner # program_id
       \/ token_info.owner # program_id
      THEN Err("IncorrectProgramId")
    ELSE IF ~agent_info.is_signer THEN Err("MissingRequiredSignature")
    ELSE IF unpack(st, token_info, Token_LEN) # "Ok"
      THEN Err(unpack(st, token_info, Token_LEN))
    ELSE IF unpack(st, source_account_info, TokenAccount_LEN) # "Ok"
      THEN Err(unpack(st, source_account_info, TokenAccount_LEN))
    ELSE IF unpack(st, destination_account_info, TokenAccount_LEN) # "Ok"
      THEN Err(unpack(st, destination_account_info, TokenAccount_LEN))
    ELSE IF unpack(st, agent_info, Agent_LEN) # "Ok"
      THEN Err(unpack(st, agent_info, Agent_LEN))
    ELSE
    LET tok == st.token[token_info.key]
        source_account == st.account[source_account_info.key]
        dest_account == st.account[destination_account_info.key]
        agent == RawOf(st, agent_info)
        registry == RawOf(st, identity_registry_info)
        compliance == RawOf(st, compliance_info)
        src_amount == checked_sub(source_account.amount, amount)
        dst_amount == checked_add(dest_account.amount, amount)
    IN
    IF ~is_agent(tok, agent.key) THEN Err("InvalidAgent")
    ELSE IF tok.is_paused THEN Err("TokenPaused")
    ELSE IF unpack(st, identity_registry_info, IdentityRegistry_LEN) # "Ok"
      THEN Err(unpack(st, identity_registry_info, IdentityRegistry_LEN))
    ELSE IF ~identity_gate(st, registry, source_account.owner)
      THEN Err("IdentityNotVerified")
    ELSE IF ~identity_gate(st, registry, dest_account.owner)
      THEN Err("IdentityNotVerified")
    ELSE IF unpack(st, compliance_info, Compliance_LEN) # "Ok"
      THEN Err(unpack(st, compliance_info, Compliance_LEN))
    ELSE IF ~compliance_gate(st, compliance, source_account.owner, dest_account.owner, amount)
      THEN Err("TransferNotCompliant")
    ELSE IF source_account.amount < amount THEN Err("InsufficientFunds")
    ELSE IF src_amount < 0 \/ dst_amount < 0 THEN Err("Panic")
    ELSE IF pack(source_account_info, TokenAccount_LEN) # "Ok"
      THEN Err(pack(source_account_info, TokenAccount_LEN))
    ELSE IF pack(destination_account_info, TokenAccount_LEN) # "Ok"
      THEN Fail(pack(destination_account_info, TokenAccount_LEN),
                <<Write(source_account_info, [source_account EXCEPT !.amount = src_amount])>>)
    ELSE Ok(<<Write(source_account_info, [source_account EXCEPT !.amount = src_amount]),
              Write(destination_account_info, [dest_account EXCEPT !.amount = dst_amount])>>)

\* process_mint without the pause check
process_mint_no_pause_check(st, accounts, amount) ==
    IF Len(accounts) < 4 THEN Err("NotEnoughAccountKeys")
    ELSE
    LET agent_info == accounts[1]
        destination_account_info == accounts[2]
        token_info == accounts[3]
        identity_registry_info == accounts[4]
    IN
    IF \/ destination_account_info.owner # program_id
       \/ token_info.owner # program_id
      THEN Err("IncorrectProgramId")
    ELSE IF ~agent_info.is_signer THEN Err("MissingRequiredSignature")
    ELSE IF unpack(st, token_info, Token_LEN) # "Ok"
      THEN Err(unpack(st, token_info, Token_LEN))
    ELSE IF unpack(st, destination_account_info, TokenAccount_LEN) # "Ok"
      THEN Err(unpack(st, destination_account_info, TokenAccount_LEN))
    ELSE IF unpack(st, agent_info, Agent_LEN) # "Ok"
      THEN Err(unpack(st, agent_info, Agent_LEN))
    ELSE
    LET tok == st.token[token_info.key]
        dest_account == st.account[destination_account_info.key]
        agent == RawOf(st, agent_info)
        registry == RawOf(st, identity_registry_info)
        supply == checked_add(tok.supply, amount)
        dst_amount == checked_add(dest_account.amount, amount)
    IN
    IF ~is_agent(tok, agent.key) THEN Err("InvalidAgent")
    ELSE IF unpack(st, identity_registry_info, IdentityRegistry_LEN) # "Ok"
      THEN Err(unpack(st, identity_registry_info, IdentityRegistry_LEN))
    ELSE IF ~identity_gate(st, registry, dest_account.owner)
      THEN Err("IdentityNotVerified")
    ELSE IF frozen_bit(dest_account.state) # 0 THEN Err("AddressFrozen")
    ELSE IF supply < 0 \/ dst_amount < 0 THEN Err("Panic")
    ELSE IF pack(token_info, Token_LEN) # "Ok"
      THEN Err(pack(token_info, Token_LEN))
    ELSE IF pack(destination_account_info, TokenAccount_LEN) # "Ok"
      THEN Fail(pack(destination_account_info, TokenAccount_LEN),
                <<Write(token_info, [tok EXCEPT !.supply = supply])>>)
    ELSE Ok(<<Write(token_info, [tok EXCEPT !.supply = supply]),
              Write(destination_account_info, [dest_account EXCEPT !.amount = dst_amount])>>)

process_mint(st, accounts, amount) ==
    IF Len(accounts) < 4 THEN Err("NotEnoughAccountKeys")
    ELSE
    LET agent_info == accounts[1]
        destination_account_info == accounts[2]
        token_info == accounts[3]
        identity_registry_info == accounts[4]
    IN
    IF \/ destination_account_info.owner # program_id
       \/ token_info.owner # program_id
      THEN Err("IncorrectProgramId")
    ELSE IF ~agent_info.is_signer THEN Err("MissingRequiredSignature")
    ELSE IF unpack(st, token_info, Token_LEN) # "Ok"
      THEN Err(unpack(st, token_info, Token_LEN))
    ELSE IF unpack(st, destination_account_info, TokenAccount_LEN) # "Ok"
      THEN Err(unpack(st, destination_account_info, TokenAccount_LEN))
    ELSE IF unpack(st, agent_info, Agent_LEN) # "Ok"
      THEN Err(unpack(st, agent_info, Agent_LEN))
    ELSE
    LET tok == st.token[token_info.key]
        dest_account == st.account[destination_account_info.key]
        agent == RawOf(st, agent_info)
        registry == RawOf(st, identity_registry_info)
        supply == checked_add(tok.supply, amount)
        dst_amount == checked_add(dest_account.amount, amount)
    IN
    IF ~is_agent(tok, agent.key) THEN Err("InvalidAgent")
    ELSE IF tok.is_paused THEN Err("TokenPaused")
    ELSE IF unpack(st, identity_registry_info, IdentityRegistry_LEN) # "Ok"
      THEN Err(unpack(st, identity_registry_info, IdentityRegistry_LEN))
    ELSE IF ~identity_gate(st, registry, dest_account.owner)
      THEN Err("IdentityNotVerified")
    ELSE IF frozen_bit(dest_account.state) # 0 THEN Err("AddressFrozen")
    ELSE IF supply < 0 \/ dst_amount < 0 THEN Err("Panic")
    ELSE IF pack(token_info, Token_LEN) # "Ok"
      THEN Err(pack(token_info, Token_LEN))
    ELSE IF pack(destination_account_info, TokenAccount_LEN) # "Ok"
      THEN Fail(pack(destination_account_info, TokenAccount_LEN),
                <<Write(token_info, [tok EXCEPT !.supply = supply])>>)
    ELSE Ok(<<Write(token_info, [tok EXCEPT !.supply = supply]),
              Write(destination_account_info, [dest_account EXCEPT !.amount = dst_amount])>>)

\* process_burn that binds the source account to the token named in the call
process_burn_rebinds(st, accounts, amount) ==
    IF Len(accounts) < 3 THEN Err("NotEnoughAccountKeys")
    ELSE
    LET owner_info == accounts[1]
        source_account_info == accounts[2]
        token_info == accounts[3]
    IN
    IF \/ source_account_info.owner # program_id
       \/ token_info.owner # program_id
      THEN Err("IncorrectProgramId")
    ELSE IF ~owner_info.is_signer THEN Err("MissingRequiredSignature")
    ELSE IF unpack(st, token_info, Token_LEN) # "Ok"
      THEN Err(unpack(st, token_info, Token_LEN))
    ELSE IF unpack(st, source_account_info, TokenAccount_LEN) # "Ok"
      THEN Err(unpack(st, source_account_info, TokenAccount_LEN))
    ELSE
    LET tok == st.token[token_info.key]
        source_account == st.account[source_account_info.key]
        supply == checked_sub(tok.supply, amount)
        src_amount == checked_sub(source_account.amount, amount)
    IN
    IF source_account.owner # owner_info.key THEN Err("InvalidOwner")
    ELSE IF tok.is_paused THEN Err("TokenPaused")
    ELSE IF frozen_bit(source_account.state) # 0 THEN Err("AddressFrozen")
    ELSE IF source_account.amount < amount THEN Err("InsufficientFunds")
    ELSE IF supply < 0 \/ src_amount < 0 THEN Err("Panic")
    ELSE IF pack(token_info, Token_LEN) # "Ok"
      THEN Err(pack(token_info, Token_LEN))
    ELSE IF pack(source_account_info, TokenAccount_LEN) # "Ok"
      THEN Fail(pack(source_account_info, TokenAccount_LEN),
                <<Write(token_info, [tok EXCEPT !.supply = supply])>>)
    ELSE Ok(<<Write(token_info, [tok EXCEPT !.supply = supply]),
              Write(source_account_info,
                    [source_account EXCEPT !.amount = src_amount, !.token = token_info.key])>>)

\* process_burn without its balance check: the arithmetic meets the shortfall
process_burn_no_balance_check(st, accounts, amount) ==
    IF Len(accounts) < 3 THEN Err("NotEnoughAccountKeys")
    ELSE
    LET owner_info == accounts[1]
        source_account_info == accounts[2]
        token_info == accounts[3]
    IN
    IF \/ source_account_info.owner # program_id
       \/ token_info.owner # program_id
      THEN Err("IncorrectProgramId")
    ELSE IF ~owner_info.is_signer THEN Err("MissingRequiredSignature")
    ELSE IF unpack(st, token_info, Token_LEN) # "Ok"
      THEN Err(unpack(st, token_info, Token_LEN))
    ELSE IF unpack(st, source_account_info, TokenAccount_LEN) # "Ok"
      THEN Err(unpack(st, source_account_info, TokenAccount_LEN))
    ELSE
    LET tok == st.token[token_info.key]
        source_account == st.account[source_account_info.key]
        supply == checked_sub(tok.supply, amount)
        src_amount == checked_sub(source_account.amount, amount)
    IN
    IF source_account.owner # owner_info.key THEN Err("InvalidOwner")
    ELSE IF tok.is_paused THEN Err("TokenPaused")
    ELSE IF frozen_bit(source_account.state) # 0 THEN Err("AddressFrozen")
    ELSE IF supply < 0 \/ src_amount < 0 THEN Err("Panic")
    ELSE IF pack(token_info, Token_LEN) # "Ok"
      THEN Err(pack(token_info, Token_LEN))
    ELSE IF pack(source_account_info, TokenAccount_LEN) # "Ok"
      THEN Fail(pack(source_account_info, TokenAccount_LEN),
                <<Write(token_info, [tok EXCEPT !.supply = supply])>>)
    ELSE Ok(<<Write(token_info, [tok EXCEPT !.supply = supply]),
              Write(source_account_info, [source_account EXCEPT !.amount = src_amount])>>)

\* process_burn with the supply written before the balance is checked
process_burn_supply_first(st, accounts, amount) ==
    IF Len(accounts) < 3 THEN Err("NotEnoughAccountKeys")
    ELSE
    LET owner_info == accounts[1]
        source_account_info == accounts[2]
        token_info == accounts[3]
    IN
    IF \/ source_account_info.owner # program_id
       \/ token_info.owner # program_id
      THEN Err("IncorrectProgramId")
    ELSE IF ~owner_info.is_signer THEN Err("MissingRequiredSignature")
    ELSE IF unpack(st, token_info, Token_LEN) # "Ok"
      THEN Err(unpack(st, token_info, Token_LEN))
    ELSE IF unpack(st, source_account_info, TokenAccount_LEN) # "Ok"
      THEN Err(unpack(st, source_account_info, TokenAccount_LEN))
    ELSE
    LET tok == st.token[token_info.key]
        source_account == st.account[source_account_info.key]
        supply == checked_sub(tok.supply, amount)
        src_amount == checked_sub(source_account.amount, amount)
    IN
    IF source_account.owner # owner_info.key THEN Err("InvalidOwner")
    ELSE IF tok.is_paused THEN Err("TokenPaused")
    ELSE IF frozen_bit(source_account.state) # 0 THEN Err("AddressFrozen")
    ELSE IF supply < 0 THEN Err("Panic")
    ELSE IF source_account.amount < amount
      THEN Fail("InsufficientFunds", <<Write(token_info, [tok EXCEPT !.supply = supply])>>)
    ELSE Ok(<<Write(token_info, [tok EXCEPT !.supply = supply]),
              Write(source_account_info, [source_account EXCEPT !.amount = src_amount])>>)

process_burn(st, accounts, amount) ==
    IF Len(accounts) < 3 THEN Err("NotEnoughAccountKeys")
    ELSE
    LET owner_info == accounts[1]
        source_account_info == accounts[2]
        token_info == accounts[3]
    IN
    IF \/ source_account_info.owner # program_id
       \/ token_info.owner # program_id
      THEN Err("IncorrectProgramId")
    ELSE IF ~owner_info.is_signer THEN Err("MissingRequiredSignature")
    ELSE IF unpack(st, token_info, Token_LEN) # "Ok"
      THEN Err(unpack(st, token_info, Token_LEN))
    ELSE IF unpack(st, source_account_info, TokenAccount_LEN) # "Ok"
      THEN Err(unpack(st, source_account_info, TokenAccount_LEN))
    ELSE
    LET tok == st.token[token_info.key]
        source_account == st.account[source_account_info.key]
        supply == checked_sub(tok.supply, amount)
        src_amount == checked_sub(source_account.amount, amount)
    IN
    IF source_account.owner # owner_info.key THEN Err("InvalidOwner")
    ELSE IF tok.is_paused THEN Err("TokenPaused")
    ELSE IF frozen_bit(source_account.state) # 0 THEN Err("AddressFrozen")
    ELSE IF source_account.amount < amount THEN Err("InsufficientFunds")
    ELSE IF supply < 0 \/ src_amount < 0 THEN Err("Panic")
    ELSE IF pack(token_info, Token_LEN) # "Ok"
      THEN Err(pack(token_info, Token_LEN))
    ELSE IF pack(source_account_info, TokenAccount_LEN) # "Ok"
      THEN Fail(pack(source_account_info, TokenAccount_LEN),
                <<Write(token_info, [tok EXCEPT !.supply = supply])>>)
    ELSE Ok(<<Write(token_info, [tok EXCEPT !.supply = supply]),
              Write(source_account_info, [source_account EXCEPT !.amount = src_amount])>>)

\* a process_set_compliance that stores the address it is given in the token
process_set_compliance_stores(st, accounts) ==
    IF Len(accounts) >= 3 /\ accounts[2].key \in TokenSlots
    THEN Ok(<<Write(accounts[2],
                    [st.token[accounts[2].key] EXCEPT !.compliance = accounts[3].key])>>)
    ELSE Ok(<<>>)

\* a process_pause that sets the pause flag of the token record it is given
process_pause_sets_flag(st, accounts) ==
    IF Len(accounts) >= 2 /\ accounts[2].key \in TokenSlots
    THEN Ok(<<Write(accounts[2], [st.token[accounts[2].key] EXCEPT !.is_paused = TRUE])>>)
    ELSE Ok(<<>>)

\* The remaining handlers but process_register_identity are stubs: they
\* read no account and return Ok(())
process_recover(st, accounts, amount) == Ok(<<>>)
process_freeze_address(st, accounts) == Ok(<<>>)
process_unfreeze_address(st, accounts) == Ok(<<>>)
process_set_compliance(st, accounts) == Ok(<<>>)
process_set_identity_registry(st, accounts) == Ok(<<>>)
process_add_agent(st, accounts) == Ok(<<>>)
process_remove_agent(st, accounts) == Ok(<<>>)
process_pause(st, accounts) == Ok(<<>>)
process_unpause(st, accounts) == Ok(<<>>)

process_register_identity(st, accounts, identity, country) ==
    IF Len(accounts) < 4 THEN Err("NotEnoughAccountKeys")
    ELSE
    LET authority_info == accounts[1]
        identity_registry_info == accounts[2]
        identity_storage_info == accounts[3]
        user_account_info == accounts[4]
        identity_registry == RawOf(st, identity_registry_info)
    IN
    IF \/ identity_registry_info.owner # program_id
       \/ identity_storage_info.owner # program_id
      THEN Err("IncorrectProgramId")
    ELSE IF ~authority_info.is_signer THEN Err("MissingRequiredSignature")
    ELSE IF unpack(st, identity_registry_info, IdentityRegistry_LEN) # "Ok"
      THEN Err(unpack(st, identity_registry_info, IdentityRegistry_LEN))
    ELSE IF /\ identity_registry.key # authority_info.key
            /\ ~registry_is_agent(identity_registry, authority_info.key)
      THEN Err("Unauthorized")
    ELSE IF identity_exists(identity_registry, user_account_info.key)
      THEN Err("IdentityAlreadyExists")
    ELSE Ok(<<>>)

process_update_identity(st, accounts, identity) == Ok(<<>>)
process_update_country(st, accounts, country) == Ok(<<>>)
process_delete_identity(st, accounts) == Ok(<<>>)
process_add_claim_topic(st, accounts, topic) == Ok(<<>>)
process_remove_claim_topic(st, accounts, topic) == Ok(<<>>)
process_add_trusted_issuer(st, accounts, claim_topics) == Ok(<<>>)
process_remove_trusted_issuer(st, accounts) == Ok(<<>>)
process_update_issuer_claim_topics(st, accounts, claim_topics) == Ok(<<>>)
process_add_compliance_rule(st, accounts) == Ok(<<>>)
process_remove_compliance_rule(st, accounts) == Ok(<<>>)

---------------------------------------------------------------------------
(* Callers' inputs *)

\* amounts carried by instruction payloads: a small one and the largest u64
Amounts == {1, U64_MAX}

\* name, symbol and decimals of the InitializeToken payloads (strings are
\* numbered; 0 is the empty string of a zeroed record)
Metadata == {<<1, 3, 9>>}

A(k) == AccountInfo(k, FALSE)

\* Wallets that signed the transaction, and one that did not
Signers == {AccountInfo("alice", TRUE), AccountInfo("bob", TRUE)}
Unsigned == AccountInfo("alice", FALSE)
Callers == Signers \cup {Unsigned}

\* Signers of the agent-gated instructions: a wallet with no data, wallets
\* whose account holds an Agent record naming themselves, and one whose
\* Agent record names another address
AgentSigners ==
    {AccountInfo("alice", TRUE), AgentInfo("alice", TRUE, "alice"),
     AgentInfo("bob", TRUE, "bob"), AgentInfo("bob", TRUE, "alice")}
AgentUnsigned == AgentInfo("alice", FALSE, "alice")
AgentCallers == AgentSigners \cup {AgentUnsigned}

\* Tails of account lists that fail a transfer's structural checks: too
\* short, a source another program owns, a token of the wrong size, a
\* registry or a compliance record that does not unpack
BadTransferTails ==
    {<<A("A1")>>,
     <<A("CMP"), A("A2"), A("T1"), A("REG"), A("CMP")>>,
     <<A("A1"), A("A2"), A("A3"), A("REG"), A("CMP")>>,
     <<A("A1"), A("A2"), A("T1"), A("bob"), A("CMP")>>,
     <<A("A1"), A("A2"), A("T1"), A("REG"), A("bob")>>}

\* source, destination, token, registry, compliance
TransferTails ==
    {<<A(s), A(d), A("T1"), A("REG"), A("CMP")>> : s \in AcctSlots, d \in AcctSlots}
    \cup {<<A("A1"), A("A2"), A("T2"), A("REG"), A("CMP")>>,
          <<A("A3"), A("A3"), A("T2"), A("REG"), A("CMP")>>}

TransferLists ==
    {<<c>> \o t : c \in Signers, t \in TransferTails}
    \cup {<<Unsigned>> \o t : t \in {<<A("A1"), A("A2"), A("T1"), A("REG"), A("CMP")>>,
                                     <<A("CMP"), A("A2"), A("T1"), A("REG"), A("CMP")>>}}
    \cup {<<AccountInfo("alice", TRUE)>> \o t : t \in BadTransferTails}

ForcedTransferLists ==
    {<<c>> \o t : c \in AgentSigners, t \in TransferTails}
    \cup {<<AgentUnsigned>> \o t : t \in {<<A("A1"), A("A2"), A("T1"), A("REG"), A("CMP")>>}}
    \cup {<<AgentInfo("alice", TRUE, "alice")>> \o t : t \in BadTransferTails}

MintLists ==
    {<<c, A(d), A(t), A("REG")>> : c \in AgentSigners, d \in AcctSlots, t \in TokenSlots}
    \cup {<<AgentUnsigned, A("A1"), A("T1"), A("REG")>>}
    \cup (LET c == AgentInfo("alice", TRUE, "alice")
          IN {<<c>>, <<c, A("CMP"), A("T1"), A("REG")>>,
              <<c, A("A1"), A("A2"), A("REG")>>, <<c, A("A1"), A("T1"), A("CMP")>>})

BurnLists ==
    {<<c, A(s), A(t)>> : c \in Signers, s \in AcctSlots, t \in TokenSlots}
    \cup {<<Unsigned, A("A1"), A("T1")>>}
    \cup (LET c == AccountInfo("alice", TRUE)
          IN {<<c>>, <<c, A("A1"), A("CMP")>>, <<c, A("T1"), A("T1")>>})

\* signer, lost account, recovery destination, token
RecoverLists ==
    {<<c, A("A1"), A("A2"), A("T1")>> : c \in Callers}
    \cup {<<AccountInfo("alice", TRUE), A("A2"), A("A2"), A("T1")>>}

\* signer, target account, token
FreezeLists ==
    {<<c, A(a), A("T1")>> : c \in AgentCallers, a \in {"A1"}}

\* signer, token, and the account the instruction names
AdminLists ==
    {<<c, A("T1"), A("bob")>> : c \in Callers}

\* signer, registry, identity storage, user
IdentityLists ==
    {<<c, A("REG"), A("STORE"), A(u)>> : c \in Callers, u \in {"bob"}}

RegisterIdentityLists ==
    IdentityLists
    \cup {<<AccountInfo("alice", TRUE)>>,
          <<AccountInfo("alice", TRUE), A("CMP"), A("STORE"), A("bob")>>,
          <<AccountInfo("alice", TRUE), A("STORE"), A("STORE"), A("bob")>>}

\* signer, registry or compliance record, and the account the instruction names
PolicyLists ==
    {<<c, A("REG"), A("bob")>> : c \in Callers}

\* token record, rent sysvar, owner, registry, compliance
InitializeTokenLists ==
    {<<A(t), A("RENT"), o, A("REG"), A("CMP")>> : t \in TokenSlots, o \in Callers}
    \cup (LET o == AccountInfo("alice", TRUE)
          IN {<<A("T1")>>,
              <<[A("T1") EXCEPT !.exempt = FALSE], A("RENT"), o, A("REG"), A("CMP")>>,
              <<A("CMP"), A("RENT"), o, A("REG"), A("CMP")>>,
              <<A("T1"), A("alice"), o, A("REG"), A("CMP")>>,
              <<A("A1"), A("RENT"), o, A("REG"), A("CMP")>>})

\* Instruction payloads: the well-formed payload of every variant over the
\* fields above, and payloads that are empty, carry an unknown tag, lack a
\* field, carry trailing data or a Vec shorter than its length
ValidInputs ==
    {<<0>> \o m : m \in Metadata}
    \cup {<<t, a>> : t \in {1, 2, 3, 4, 5, 15, 16, 18, 19}, a \in Amounts}
    \cup {<<t>> : t \in {6, 7, 8, 9, 10, 11, 12, 13, 17, 21, 23, 24}}
    \cup {<<14, 1, 1>>, <<20, 1, 1>>, <<22, 0>>}

MalformedInputs ==
    {<<>>, <<Len(Variants)>>, <<1>>, <<0, 1>>, <<4, 1, 1>>, <<12, 0>>, <<20, 2, 1>>}

Inputs == ValidInputs \cup MalformedInputs

InputsOf(v) == {i \in Inputs : try_from_slice(i).ok /\ try_from_slice(i).variant = v}

---------------------------------------------------------------------------
(* Processor::process *)

\* No invocation is in progress
Idle == [op |-> "idle", res |-> "none", accounts |-> <<>>, input |-> <<>>]

\* One invocation: input was decoded and routed to handler op, which ran on
\* the account list and produced out.  Its writes are committed; last is
\* the invocation and its result.
Invoke(op, accounts, input, out) ==
    LET st2 == Commit(Store, out.writes)
    IN [token |-> st2.token, account |-> st2.account,
        last |-> [op |-> op, res |-> out.res, accounts |-> accounts, input |-> input]]

InitializeTokenInputs == InputsOf("InitializeToken")
InitializeToken ==
    /\ last = Idle
    /\ \E input \in InitializeTokenInputs, accounts \in InitializeTokenLists :
          LET ix == try_from_slice(input)
              o == Invoke(ix.variant, accounts, input,
                          process_initialize_token(Store, accounts, ix.args[1], ix.args[2], ix.args[3]))
          IN /\ token' = o.token
             /\ account' = o.account
             /\ last' = o.last
             /\ policy' = policy

TransferInputs == InputsOf("Transfer")
Transfer ==
    /\ last = Idle
    /\ \E input \in TransferInputs, accounts \in TransferLists :
          LET ix == try_from_slice(input)
              o == Invoke(ix.variant, accounts, input,
                          process_transfer(Store, accounts, ix.args[1]))
          IN /\ token' = o.token
             /\ account' = o.account
             /\ last' = o.last
             /\ policy' = policy

ForcedTransferInputs == InputsOf("ForcedTransfer")
ForcedTransfer ==
    /\ last = Idle
    /\ \E input \in ForcedTransferInputs, accounts \in ForcedTransferLists :
          LET ix == try_from_slice(input)
              o == Invoke(ix.variant, accounts, input,
                          process_forced_transfer(Store, accounts, ix.args[1]))
          IN /\ token' = o.token
             /\ account' = o.account
             /\ last' = o.last
             /\ policy' = policy

MintInputs == InputsOf("Mint")
Mint ==
    /\ last = Idle
    /\ \E input \in MintInputs, accounts \in MintLists :
          LET ix == try_from_slice(input)
              o == Invoke(ix.variant, accounts, input,
                          process_mint(Store, accounts, ix.args[1]))
          IN /\ token' = o.token
             /\ account' = o.account
             /\ last' = o.last
             /\ policy' = policy

BurnInputs == InputsOf("Burn")
Burn ==
    /\ last = Idle
    /\ \E input \in BurnInputs, accounts \in BurnLists :
          LET ix == try_from_slice(input)
              o == Invoke(ix.variant, accounts, input,
                          process_burn(Store, accounts, ix.args[1]))
          IN /\ token' = o.token
             /\ account' = o.account
             /\ last' = o.last
             /\ policy' = policy

RecoverInputs == InputsOf("Recover")
Recover ==
    /\ last = Idle
    /\ \E input \in RecoverInputs, accounts \in RecoverLists :
          LET ix == try_from_slice(input)
              o == Invoke(ix.variant, accounts, input,
                          process_recover(Store, accounts, ix.args[1]))
          IN /\ token' = o.token
             /\ account' = o.account
             /\ last' = o.last
             /\ policy' = policy

FreezeAddressInputs == InputsOf("FreezeAddress")
FreezeAddress ==
    /\ last = Idle
    /\ \E input \in FreezeAddressInputs, accounts \in FreezeLists :
          LET ix == try_from_slice(input)
              o == Invoke(ix.variant, accounts, input,
                          process_freeze_address(Store, accounts))
          IN /\ token' = o.token
             /\ account' = o.account
             /\ last' = o.last
             /\ policy' = policy

UnfreezeAddressInputs == InputsOf("UnfreezeAddress")
UnfreezeAddress ==
    /\ last = Idle
    /\ \E input \in UnfreezeAddressInputs, accounts \in FreezeLists :
          LET ix == try_from_slice(input)
              o == Invoke(ix.variant, accounts, input,
                          process_unfreeze_address(Store, accounts))
          IN /\ token' = o.token
             /\ account' = o.account
             /\ last' = o.last
             /\ policy' = policy

SetComplianceInputs == InputsOf("SetCompliance")
SetCompliance ==
    /\ last = Idle
    /\ \E input \in SetComplianceInputs, accounts \in AdminLists :
          LET ix == try_from_slice(input)
              o == Invoke(ix.variant, accounts, input,
                          process_set_compliance(Store, accounts))
          IN /\ token' = o.token
             /\ account' = o.account
             /\ last' = o.last
             /\ policy' = policy

SetIdentityRegistryInputs == InputsOf("SetIdentityRegistry")
SetIdentityRegistry ==
    /\ last = Idle
    /\ \E input \in SetIdentityRegistryInputs, accounts \in AdminLists :
          LET ix == try_from_slice(input)
              o == Invoke(ix.variant, accounts, input,
                          process_set_identity_registry(Store, accounts))
          IN /\ token' = o.token
             /\ account' = o.account
             /\ last' = o.last
             /\ policy' = policy

AddAgentInputs == InputsOf("AddAgent")
AddAgent ==
    /\ last = Idle
    /\ \E input \in AddAgentInputs, accounts \in AdminLists :
          LET ix == try_from_slice(input)
              o == Invoke(ix.variant, accounts, input,
                          process_add_agent(Store, accounts))
          IN /\ token' = o.token
             /\ account' = o.account
             /\ last' = o.last
             /\ policy' = policy

RemoveAgentInputs == InputsOf("RemoveAgent")
RemoveAgent ==
    /\ last = Idle
    /\ \E input \in RemoveAgentInputs, accounts \in AdminLists :
          LET ix == try_from_slice(input)
              o == Invoke(ix.variant, accounts, input,
                          process_remove_agent(Store, accounts))
          IN /\ token' = o.token
             /\ account' = o.account
             /\ last' = o.last
             /\ policy' = policy

PauseInputs == InputsOf("Pause")
Pause ==
    /\ last = Idle
    /\ \E input \in PauseInputs, accounts \in AdminLists :
          LET ix == try_from_slice(input)
              o == Invoke(ix.variant, accounts, input,
                          process_pause(Store, accounts))
          IN /\ token' = o.token
             /\ account' = o.account
             /\ last' = o.last
             /\ policy' = policy

UnpauseInputs == InputsOf("Unpause")
Unpause ==
    /\ last = Idle
    /\ \E input \in UnpauseInputs, accounts \in AdminLists :
          LET ix == try_from_slice(input)
              o == Invoke(ix.variant, accounts, input,
                          process_unpause(Store, accounts))
          IN /\ token' = o.token
             /\ account' = o.account
             /\ last' = o.last
             /\ policy' = policy

RegisterIdentityInputs == InputsOf("RegisterIdentity")
RegisterIdentity ==
    /\ last = Idle
    /\ \E input \in RegisterIdentityInputs, accounts \in RegisterIdentityLists :
          LET ix == try_from_slice(input)
              o == Invoke(ix.variant, accounts, input,
                          process_register_identity(Store, accounts, ix.args[1], ix.args[2]))
          IN /\ token' = o.token
             /\ account' = o.account
             /\ last' = o.last
             /\ policy' = policy

UpdateIdentityInputs == InputsOf("UpdateIdentity")
UpdateIdentity ==
    /\ last = Idle
    /\ \E input \in UpdateIdentityInputs, accounts \in IdentityLists :
          LET ix == try_from_slice(input)
              o == Invoke(ix.variant, accounts, input,
                          process_update_identity(Store, accounts, ix.args[1]))
          IN /\ token' = o.token
             /\ account' = o.account
             /\ last' = o.last
             /\ policy' = policy

UpdateCountryInputs == InputsOf("UpdateCountry")
UpdateCountry ==
    /\ last = Idle
    /\ \E input \in UpdateCountryInputs, accounts \in IdentityLists :
          LET ix == try_from_slice(input)
              o == Invoke(ix.variant, accounts, input,
                          process_update_country(Store, accounts, ix.args[1]))
          IN /\ token' = o.token
             /\ account' = o.account
             /\ last' = o.last
             /\ policy' = policy

DeleteIdentityInputs == InputsOf("DeleteIdentity")
DeleteIdentity ==
    /\ last = Idle
    /\ \E input \in DeleteIdentityInputs, accounts \in IdentityLists :
          LET ix == try_from_slice(input)
              o == Invoke(ix.variant, accounts, input,
                          process_delete_identity(Store, accounts))
          IN /\ token' = o.token
             /\ account' = o.account
             /\ last' = o.last
             /\ policy' = policy

AddClaimTopicInputs == InputsOf("AddClaimTopic")
AddClaimTopic ==
    /\ last = Idle
    /\ \E input \in AddClaimTopicInputs, accounts \in PolicyLists :
          LET ix == try_from_slice(input)
              o == Invoke(ix.variant, accounts, input,
                          process_add_claim_topic(Store, accounts, ix.args[1]))
          IN /\ token' = o.token
             /\ account' = o.account
             /\ last' = o.last
             /\ policy' = policy

RemoveClaimTopicInputs == InputsOf("RemoveClaimTopic")
RemoveClaimTopic ==
    /\ last = Idle
    /\ \E input \in RemoveClaimTopicInputs, accounts \in PolicyLists :
          LET ix == try_from_slice(input)
              o == Invoke(ix.variant, accounts, input,
                          process_remove_claim_topic(Store, accounts, ix.args[1]))
          IN /\ token' = o.token
             /\ account' = o.account
             /\ last' = o.last
             /\ policy' = policy

AddTrustedIssuerInputs == InputsOf("AddTrustedIssuer")
AddTrustedIssuer ==
    /\ last = Idle
    /\ \E input \in AddTrustedIssuerInputs, accounts \in PolicyLists :
          LET ix == try_from_slice(input)
              o == Invoke(ix.variant, accounts, input,
                          process_add_trusted_issuer(Store, accounts, Tail(ix.args)))
          IN /\ token' = o.token
             /\ account' = o.account
             /\ last' = o.last
             /\ policy' = policy

RemoveTrustedIssuerInputs == InputsOf("RemoveTrustedIssuer")
RemoveTrustedIssuer ==
    /\ last = Idle
    /\ \E input \in RemoveTrustedIssuerInputs, accounts \in PolicyLists :
          LET ix == try_from_slice(input)
              o == Invoke(ix.variant, accounts, input,
                          process_remove_trusted_issuer(Store, accounts))
          IN /\ token' = o.token
             /\ account' = o.account
             /\ last' = o.last
             /\ policy' = policy

UpdateIssuerClaimTopicsInputs == InputsOf("UpdateIssuerClaimTopics")
UpdateIssuerClaimTopics ==
    /\ last = Idle
    /\ \E input \in UpdateIssuerClaimTopicsInputs, accounts \in PolicyLists :
          LET ix == try_from_slice(input)
              o == Invoke(ix.variant, accounts, input,
                          process_update_issuer_claim_topics(Store, accounts, Tail(ix.args)))
          IN /\ token' = o.token
             /\ account' = o.account
             /\ last' = o.last
             /\ policy' = policy

AddComplianceRuleInputs == InputsOf("AddComplianceRule")
AddComplianceRule ==
    /\ last = Idle
    /\ \E input \in AddComplianceRuleInputs, accounts \in PolicyLists :
          LET ix == try_from_slice(input)
              o == Invoke(ix.variant, accounts, input,
                          process_add_compliance_rule(Store, accounts))
          IN /\ token' = o.token
             /\ account' = o.account
             /\ last' = o.last
             /\ policy' = policy

RemoveComplianceRuleInputs == InputsOf("RemoveComplianceRule")
RemoveComplianceRule ==
    /\ last = Idle
    /\ \E input \in RemoveComplianceRuleInputs, accounts \in PolicyLists :
          LET ix == try_from_slice(input)
              o == Invoke(ix.variant, accounts, input,
                          process_remove_compliance_rule(Store, accounts))
          IN /\ token' = o.token
             /\ account' = o.account
             /\ last' = o.last
             /\ policy' = policy

\* try_from_slice(input)? fails: the std::io::Error is converted by the ?
\* operator and returned before any handler runs
DecodeFailure ==
    /\ last = Idle
    /\ \E input \in Inputs :
          /\ ~try_from_slice(input).ok
          /\ LET o == Invoke("none", <<>>, input, Err("BorshIoError"))
             IN /\ token' = o.token
                /\ account' = o.account
                /\ last' = o.last
                /\ policy' = policy

\* The transaction ends: its result has gone back to the client and the
\* next invocation can start
Return ==
    /\ last # Idle
    /\ last' = Idle
    /\ UNCHANGED <<token, account, policy>>

---------------------------------------------------------------------------

\* The records the external allocation step hands to the program: token
\* records are zeroed or carry a provisioned, paused token; token accounts
\* are initialized with a zero balance, one of them frozen.
Init ==
    /\ token \in [TokenSlots -> {ZeroToken, PausedToken}]
    /\ account = [a \in AcctSlots |->
                    IF a = "A1" THEN TokenAccount("T1", "alice", 0, 0)
                    ELSE IF a = "A2" THEN TokenAccount("T1", "bob", 0, 0)
                    ELSE TokenAccount("T2", "bob", 0, ACCOUNT_FROZEN_FLAG)]
    /\ last = Idle
    /\ policy = SourcePolicy

Next ==
    \/ InitializeToken
    \/ Transfer
    \/ ForcedTransfer
    \/ Mint
    \/ Burn
    \/ Recover
    \/ FreezeAddress
    \/ UnfreezeAddress
    \/ SetCompliance
    \/ SetIdentityRegistry
    \/ AddAgent
    \/ RemoveAgent
    \/ Pause
    \/ Unpause
    \/ RegisterIdentity
    \/ UpdateIdentity
    \/ UpdateCountry
    \/ DeleteIdentity
    \/ AddClaimTopic
    \/ RemoveClaimTopic
    \/ AddTrustedIssuer
    \/ RemoveTrustedIssuer
    \/ UpdateIssuerClaimTopics
    \/ AddComplianceRule
    \/ RemoveComplianceRule
    \/ DecodeFailure
    \/ Return

Spec == Init /\ [][Next]_vars

\* The same program with its identity and compliance predicates plugged:
\* each behaviour fixes a set of verified addresses; transfers of more than
\* PolicyLimit are not compliant
PolicyLimit == 1
Policies ==
    {[plugged |-> TRUE, verified |-> v, limit |-> PolicyLimit] :
        v \in (SUBSET Wallets) \ {{}}}

InitPlugged ==
    /\ token \in {[t \in TokenSlots |-> IF t = "T1" THEN z ELSE ZeroToken] :
                    z \in {ZeroToken, PausedToken}}
    /\ account = [a \in AcctSlots |->
                    IF a = "A1" THEN TokenAccount("T1", "alice", 0, 0)
                    ELSE IF a = "A2" THEN TokenAccount("T1", "bob", 0, 0)
                    ELSE TokenAccount("T2", "bob", 0, ACCOUNT_FROZEN_FLAG)]
    /\ last = Idle
    /\ policy \in Policies

SpecPlugged == InitPlugged /\ [][Next]_vars

\* The program started on freshly allocated, zeroed token records: every
\* initialized token of a behaviour was written by InitializeToken
InitFresh ==
    /\ token = [t \in TokenSlots |-> ZeroToken]
    /\ account = [a \in AcctSlots |->
                    IF a = "A1" THEN TokenAccount("T1", "alice", 0, 0)
                    ELSE IF a = "A2" THEN TokenAccount("T1", "bob", 0, 0)
                    ELSE TokenAccount("T2", "bob", 0, ACCOUNT_FROZEN_FLAG)]
    /\ last = Idle
    /\ policy = SourcePolicy

SpecFresh == InitFresh /\ [][Next]_vars

---------------------------------------------------------------------------
(* Properties *)

RECURSIVE SumAmounts(_, _)
SumAmounts(acc, S) ==
    IF S = {} THEN 0
    ELSE LET a == CHOOSE x \in S : TRUE
         IN acc[a].amount + SumAmounts(acc, S \ {a})

\* Sum of the balances of the token accounts that reference token t
BalanceSum(acc, t) == SumAmounts(acc, {a \in AcctSlots : acc[a].token = t})

SupplyEqualsBalances(tok, acc, t) == tok[t].supply = BalanceSum(acc, t)

\* The account at position i of the last invocation's account list
Acc(i) == last.accounts[i]
Invoked(op) == last.op = op
Succeeded == last.res = "Ok"

\* C1: every Transfer, ForcedTransfer and Recover, successful or rejected and
\* whatever records it names, leaves the sum of the balances of each token's
\* accounts as it was.
C1_BalanceSumConserved ==
    [][last'.op \in {"Transfer", "ForcedTransfer", "Recover"}
        => \A t \in TokenSlots : BalanceSum(account', t) = BalanceSum(account, t)]_vars

\* C2: a Mint or Burn that names a token whose supply equals the sum of the
\* balances of the accounts referencing it leaves that equality true,
\* whatever account record it names.
C2_SupplyEqualsBalancesKept ==
    [][/\ last'.op \in {"Mint", "Burn"}
       /\ Len(last'.accounts) >= 3
       /\ last'.accounts[3].key \in TokenSlots
       /\ SupplyEqualsBalances(token, account, last'.accounts[3].key)
       => SupplyEqualsBalances(token', account', last'.accounts[3].key)]_vars

\* C3: an invocation that does not return Ok leaves every Token and every
\* TokenAccount record as it was before the call.
C3_RejectionWritesNothing ==
    [][last'.op # "idle" /\ last'.res # "Ok" => token' = token /\ account' = account]_vars

\* C3 witness: a Burn was rejected by its last check, the balance check
C3_Witness ==
    /\ Invoked("Burn")
    /\ last.res = "InsufficientFunds"
    /\ token[Acc(3).key].supply >= last.input[2]

\* C4: an InitializeToken on a token record that is already initialized
\* leaves that record as it was.
C4_InitializedTokenNotOverwritten ==
    [][/\ last'.op = "InitializeToken"
       /\ Len(last'.accounts) >= 1
       /\ last'.accounts[1].key \in TokenSlots
       /\ token[last'.accounts[1].key].is_initialized
       => token'[last'.accounts[1].key] = token[last'.accounts[1].key]]_vars

\* C5: an invocation whose payload does not decode to an instruction returns
\* InvalidInstruction and changes no record.
C5_MalformedPayloadIsInvalidInstruction ==
    [][last'.op # "idle" /\ ~try_from_slice(last'.input).ok
        => last'.res = "InvalidInstruction" /\ token' = token /\ account' = account]_vars

\* C6: a Mint or ForcedTransfer succeeds only if the address that signed it
\* is an agent of the token it names.
C6_SignerIsAgent ==
    /\ Invoked("Mint") /\ Succeeded
        => Acc(1).is_signer /\ is_agent(token[Acc(3).key], Acc(1).key)
    /\ Invoked("ForcedTransfer") /\ Succeeded
        => Acc(1).is_signer /\ is_agent(token[Acc(4).key], Acc(1).key)

\* The token record named by an agent-gated invocation, and its presence
AgentOpToken ==
    IF last.op = "ForcedTransfer" THEN Acc(4).key ELSE Acc(3).key
AgentOpNamesToken ==
    /\ last.op \in {"Mint", "ForcedTransfer", "FreezeAddress", "UnfreezeAddress"}
    /\ Len(last.accounts) >= (IF last.op = "ForcedTransfer" THEN 4 ELSE 3)
    /\ AgentOpToken \in TokenSlots
    /\ token[AgentOpToken].is_initialized

\* C7: Mint, ForcedTransfer, FreezeAddress and UnfreezeAddress reject a
\* signer that is the token's owner and not a registered agent of it;
\* Transfer and Burn reject a signer that is not the owner of the source
\* account.
C7_RolesAreDistinct ==
    /\ /\ AgentOpNamesToken
       /\ Acc(1).is_signer
       /\ Acc(1).key = token[AgentOpToken].owner
       /\ Acc(1).key \notin agent_roster(token[AgentOpToken])
       => ~Succeeded
    /\ /\ last.op \in {"Transfer", "Burn"}
       /\ Len(last.accounts) >= 2
       /\ Acc(2).key \in AcctSlots
       /\ account[Acc(2).key].is_initialized
       /\ account[Acc(2).key].owner # Acc(1).key
       => ~Succeeded

\* A Transfer or Burn names records the program owns
SourceOpOwned(l) ==
    IF l.op = "Transfer"
    THEN /\ Len(l.accounts) >= 6
         /\ \A i \in {2, 3, 4} : l.accounts[i].owner = program_id
    ELSE /\ Len(l.accounts) >= 3
         /\ \A i \in {2, 3} : l.accounts[i].owner = program_id

\* ... and the records unpack as an initialized token and token accounts
SourceOpUnpacks(st, l) ==
    IF l.op = "Transfer"
    THEN /\ unpack(st, l.accounts[4], Token_LEN) = "Ok"
         /\ unpack(st, l.accounts[2], TokenAccount_LEN) = "Ok"
         /\ unpack(st, l.accounts[3], TokenAccount_LEN) = "Ok"
    ELSE /\ unpack(st, l.accounts[3], Token_LEN) = "Ok"
         /\ unpack(st, l.accounts[2], TokenAccount_LEN) = "Ok"

\* C8: a Transfer or Burn on records the program owns fails with
\* MissingRequiredSignature when its first account has not signed and with
\* InvalidOwner when the signer is not the owner of the source account, and
\* in both cases changes no record.
C8_SignerMustOwnSource ==
    [][last'.op \in {"Transfer", "Burn"} /\ SourceOpOwned(last')
        => LET l == last'
               signed == l.accounts[1].is_signer
               owns == /\ l.accounts[2].key \in AcctSlots
                       /\ account[l.accounts[2].key].owner = l.accounts[1].key
           IN /\ ~signed => l.res = "MissingRequiredSignature"
              /\ signed /\ SourceOpUnpacks(Store, l) /\ ~owns => l.res = "InvalidOwner"
              /\ ~(signed /\ owns) => token' = token /\ account' = account]_vars

\* C9: an InitializeToken succeeds only if the account named as the token
\* owner signed the call.
C9_InitializeNeedsOwnerSignature ==
    Invoked("InitializeToken") /\ Succeeded => Acc(3).is_signer

\* C10: Pause, Unpause, SetCompliance, SetIdentityRegistry, AddAgent and
\* RemoveAgent succeed only if the first account signed and is the owner of
\* the token named.
C10_AdminNeedsTokenOwner ==
    /\ last.op \in {"Pause", "Unpause", "SetCompliance", "SetIdentityRegistry",
                    "AddAgent", "RemoveAgent"}
    /\ Succeeded
    => /\ Len(last.accounts) >= 2
       /\ Acc(1).is_signer
       /\ Acc(2).key \in TokenSlots
       /\ token[Acc(2).key].owner = Acc(1).key

\* The positions of the account list whose data the last invocation's
\* handler unpacks as a record of this program
RecordPositions ==
    IF last.op = "Transfer" THEN {2, 3, 4, 5, 6}
    ELSE IF last.op = "ForcedTransfer" THEN {1, 2, 3, 4, 5, 6}
    ELSE IF last.op = "Mint" THEN {1, 2, 3, 4}
    ELSE IF last.op = "Burn" THEN {2, 3}
    ELSE {}

\* C11: a Transfer, ForcedTransfer, Mint or Burn succeeds only if every
\* account whose data it unpacks (token, token accounts, identity registry,
\* compliance, agent) is owned by this program.
C11_RecordsReadAreProgramOwned ==
    /\ last.op \in {"Transfer", "ForcedTransfer", "Mint", "Burn"}
    /\ Succeeded
    => \A i \in RecordPositions : Acc(i).owner = program_id

\* Owner of the token account at position i of an invocation's account
\* list, read from the records before the call
OwnerAt(l, i) == account[l.accounts[i].key].owner

FrozenAt(l, i) == frozen_bit(account[l.accounts[i].key].state) # 0

\* A Transfer that reaches the gates: its records are owned by the program
\* and unpack, and its first account signed
TransferReachesGates(l) ==
    /\ l.op = "Transfer"
    /\ SourceOpOwned(l)
    /\ l.accounts[1].is_signer
    /\ SourceOpUnpacks(Store, l)

\* C13: a Transfer that reaches the gates on a paused token with a frozen
\* source or destination account fails with TokenPaused.
C13_PauseBeforeFreeze ==
    [][/\ TransferReachesGates(last')
       /\ token[last'.accounts[4].key].is_paused
       /\ FrozenAt(last', 2) \/ FrozenAt(last', 3)
       => last'.res = "TokenPaused"]_vars

\* C13 witness: TokenPaused was returned to the owner of an unfrozen source
\* whose Transfer names a frozen destination
C13_Witness ==
    /\ Invoked("Transfer")
    /\ last.res = "TokenPaused"
    /\ account[Acc(2).key].owner = Acc(1).key
    /\ frozen_bit(account[Acc(2).key].state) = 0
    /\ frozen_bit(account[Acc(3).key].state) # 0

\* C14: whatever the identity and compliance predicates return, a Transfer
\* that reaches the gates on an unpaused token, signed by the owner of the
\* source, with a destination whose frozen flag is set fails with
\* AddressFrozen and changes no record.
C14_FrozenDestinationRefused ==
    [][/\ TransferReachesGates(last')
       /\ ~token[last'.accounts[4].key].is_paused
       /\ OwnerAt(last', 2) = last'.accounts[1].key
       /\ account[last'.accounts[3].key].state = ACCOUNT_FROZEN_FLAG
       => /\ last'.res = "AddressFrozen"
          /\ account' = account
          /\ token' = token]_vars

\* C14 witness: AddressFrozen went to the owner of an unfrozen source for a
\* Transfer to a frozen destination that the identity predicate (owner of
\* the destination not verified) and the compliance predicate (amount over
\* the limit) would both have refused
C14_Witness ==
    /\ policy.plugged
    /\ Invoked("Transfer")
    /\ last.res = "AddressFrozen"
    /\ account[Acc(2).key].owner = Acc(1).key
    /\ account[Acc(2).key].state = 0
    /\ account[Acc(3).key].state = ACCOUNT_FROZEN_FLAG
    /\ account[Acc(3).key].owner \notin policy.verified
    /\ last.input[2] > policy.limit

\* C15: no Transfer, ForcedTransfer, Mint or Burn succeeds on an account
\* whose frozen flag is set, and none changes the amount of such an account.
C15_FrozenAccountNeverMoves ==
    [][last'.op \in {"Transfer", "ForcedTransfer", "Mint", "Burn"}
        => \A a \in AcctSlots :
             account[a].state = ACCOUNT_FROZEN_FLAG
             => /\ account'[a].amount = account[a].amount
                /\ /\ last'.res = "Ok"
                   /\ Len(last'.accounts) >= 3
                   => /\ last'.accounts[2].key # a
                      /\ last'.op \in {"Transfer", "ForcedTransfer"}
                         => last'.accounts[3].key # a]_vars

\* Position of the token record in the account list of a balance-moving
\* instruction
TokenPosition(op) == IF op \in {"Transfer", "ForcedTransfer"} THEN 4 ELSE 3

\* The invocation names, at the token's position, a token record that is
\* paused before the call
NamesPausedToken(l) ==
    /\ Len(l.accounts) >= TokenPosition(l.op)
    /\ l.accounts[TokenPosition(l.op)].key \in TokenSlots
    /\ token[l.accounts[TokenPosition(l.op)].key].is_initialized
    /\ token[l.accounts[TokenPosition(l.op)].key].is_paused

\* A Mint whose records are owned by the program and unpack, signed by an
\* account whose Agent record names an agent of the token
MintByAgent(l) ==
    /\ l.op = "Mint"
    /\ Len(l.accounts) >= 4
    /\ l.accounts[2].owner = program_id
    /\ l.accounts[3].owner = program_id
    /\ l.accounts[1].is_signer
    /\ unpack(Store, l.accounts[3], Token_LEN) = "Ok"
    /\ unpack(Store, l.accounts[2], TokenAccount_LEN) = "Ok"
    /\ unpack(Store, l.accounts[1], Agent_LEN) = "Ok"
    /\ is_agent(token[l.accounts[3].key], l.accounts[1].data.key)

\* C16: a Transfer, ForcedTransfer, Mint or Burn naming a paused token fails
\* and changes neither the supply nor any balance; a Mint by an agent of the
\* paused token fails with TokenPaused.
C16_PausedTokenMovesNothing ==
    [][/\ last'.op \in {"Transfer", "ForcedTransfer", "Mint", "Burn"}
       /\ NamesPausedToken(last')
       => /\ last'.res # "Ok"
          /\ token' = token
          /\ account' = account
          /\ MintByAgent(last') => last'.res = "TokenPaused"]_vars

\* C16 witness: a signed Mint by the owner-agent of a paused token to an
\* unfrozen account of that token was refused with TokenPaused
C16_Witness ==
    /\ Invoked("Mint")
    /\ last.res = "TokenPaused"
    /\ Acc(1).is_signer
    /\ Acc(1).key = token[Acc(3).key].owner
    /\ account[Acc(2).key].token = Acc(3).key
    /\ account[Acc(2).key].state = 0

\* A Pause or Unpause signed by the owner of the initialized token it names
\* returned Ok
OwnerToggled(l, op) ==
    /\ l.op = op
    /\ l.res = "Ok"
    /\ Len(l.accounts) >= 2
    /\ l.accounts[1].is_signer
    /\ l.accounts[2].key \in TokenSlots
    /\ token[l.accounts[2].key].is_initialized
    /\ token[l.accounts[2].key].owner = l.accounts[1].key

\* C17: a successful Pause by the token owner leaves the token paused, and a
\* successful Unpause by the token owner leaves it not paused.
C17_PauseTogglesToken ==
    [][/\ OwnerToggled(last', "Pause") => token'[last'.accounts[2].key].is_paused
       /\ OwnerToggled(last', "Unpause") => ~token'[last'.accounts[2].key].is_paused]_vars

\* A FreezeAddress or UnfreezeAddress signed by an agent of the initialized
\* token it names, on a token account, returned Ok
AgentToggled(l, op) ==
    /\ l.op = op
    /\ l.res = "Ok"
    /\ Len(l.accounts) >= 3
    /\ l.accounts[1].is_signer
    /\ l.accounts[2].key \in AcctSlots
    /\ l.accounts[3].key \in TokenSlots
    /\ token[l.accounts[3].key].is_initialized
    /\ is_agent(token[l.accounts[3].key], l.accounts[1].key)

\* C18: a successful FreezeAddress by an agent of the token sets the frozen
\* bit of the target account, a successful UnfreezeAddress clears it, and
\* neither changes the flags of another account.
C18_FreezeTogglesAccount ==
    [][/\ AgentToggled(last', "FreezeAddress")
          => frozen_bit(account'[last'.accounts[2].key].state) = 1
       /\ AgentToggled(last', "UnfreezeAddress")
          => frozen_bit(account'[last'.accounts[2].key].state) = 0
       /\ last'.op \in {"FreezeAddress", "UnfreezeAddress"} /\ Len(last'.accounts) >= 2
          => \A a \in AcctSlots \ {last'.accounts[2].key} :
                account'[a].state = account[a].state]_vars

\* C19: a successful Recover was signed by the owner of the token it names
\* and moves its amount from the lost account to the recovery destination,
\* with the supply unchanged.
C19_RecoverMovesBalance ==
    [][last'.op = "Recover" /\ last'.res = "Ok"
        => LET l == last'
               amount == l.input[2]
           IN /\ Len(l.accounts) >= 4
              /\ l.accounts[1].is_signer
              /\ l.accounts[4].key \in TokenSlots
              /\ token[l.accounts[4].key].owner = l.accounts[1].key
              /\ token' = token
              /\ l.accounts[2].key # l.accounts[3].key
                 => /\ account'[l.accounts[2].key].amount
                         = account[l.accounts[2].key].amount - amount
                    /\ account'[l.accounts[3].key].amount
                         = account[l.accounts[3].key].amount + amount]_vars

\* A Transfer that passes every gate before the balance check: it reaches
\* the gates, the token is not paused, the signer owns the source, neither
\* account is frozen, the registry and compliance records unpack and the
\* identity and compliance predicates accept
TransferPassesGates(l) ==
    /\ TransferReachesGates(l)
    /\ ~token[l.accounts[4].key].is_paused
    /\ OwnerAt(l, 2) = l.accounts[1].key
    /\ ~FrozenAt(l, 2)
    /\ ~FrozenAt(l, 3)
    /\ unpack(Store, l.accounts[5], IdentityRegistry_LEN) = "Ok"
    /\ unpack(Store, l.accounts[6], Compliance_LEN) = "Ok"
    /\ identity_gate(Store, l.accounts[5].data, OwnerAt(l, 2))
    /\ identity_gate(Store, l.accounts[5].data, OwnerAt(l, 3))
    /\ compliance_gate(Store, l.accounts[6].data, OwnerAt(l, 2), OwnerAt(l, 3), l.input[2])

\* C20: a Transfer that passes every gate with source.amount >= amount
\* takes exactly amount from the source, adds exactly amount to the
\* destination and leaves the token record as it was; with
\* source.amount < amount it fails with InsufficientFunds and changes
\* nothing.
C20_TransferArithmetic ==
    [][TransferPassesGates(last')
        => LET l == last'
               amount == l.input[2]
               src == l.accounts[2].key
               dst == l.accounts[3].key
           IN IF account[src].amount >= amount
              THEN /\ l.res = "Ok"
                   /\ account'[src].amount = account[src].amount - amount
                   /\ account'[dst].amount = account[dst].amount + amount
                   /\ token' = token
              ELSE /\ l.res = "InsufficientFunds"
                   /\ account' = account
                   /\ token' = token]_vars

\* C21: a successful Mint adds exactly its amount to the supply of the token
\* it names and to the amount of its destination and changes nothing else;
\* it succeeds only on a token that is not paused and a destination that is
\* not frozen and whose owner is verified.
C21_MintArithmetic ==
    [][last'.op = "Mint" /\ last'.res = "Ok"
        => LET amount == last'.input[2]
               d == last'.accounts[2].key
               t == last'.accounts[3].key
           IN /\ ~token[t].is_paused
              /\ account[d].state # ACCOUNT_FROZEN_FLAG
              /\ account[d].owner \in policy.verified
              /\ token' = [token EXCEPT ![t].supply = token[t].supply + amount]
              /\ account' = [account EXCEPT ![d].amount = account[d].amount + amount]]_vars

\* C21 witness: a Mint succeeded under a policy that does not verify every
\* address, raising a supply that was not zero
C21_Witness ==
    /\ policy.plugged
    /\ policy.verified # Wallets
    /\ Invoked("Mint")
    /\ Succeeded
    /\ token[Acc(3).key].supply > last.input[2]

\* The amount of an invocation and the balance or supply held by the record
\* at a position of its account list, 0 when no record is there
AmountOf(l) == l.input[2]
BalanceAt(l, i) ==
    IF Len(l.accounts) >= i /\ l.accounts[i].key \in AcctSlots
      THEN account[l.accounts[i].key].amount ELSE 0
SupplyAt(l, i) ==
    IF Len(l.accounts) >= i /\ l.accounts[i].key \in TokenSlots
      THEN token[l.accounts[i].key].supply ELSE 0
NamesRecords(l, accts, tok) ==
    /\ Len(l.accounts) >= tok
    /\ l.accounts[tok].key \in TokenSlots
    /\ \A i \in accts : l.accounts[i].key \in AcctSlots

\* The invocation asks for arithmetic that leaves the range of u64: a Mint
\* past the maximum of the supply or of the destination, a transfer whose
\* credit passes the maximum of the destination, a Burn of more than the
\* supply
LeavesU64(l) ==
    \/ /\ l.op = "Mint"
       /\ NamesRecords(l, {2}, 3)
       /\ \/ SupplyAt(l, 3) + AmountOf(l) > U64_MAX
          \/ BalanceAt(l, 2) + AmountOf(l) > U64_MAX
    \/ /\ l.op \in {"Transfer", "ForcedTransfer"}
       /\ NamesRecords(l, {2, 3}, 4)
       /\ BalanceAt(l, 3) + AmountOf(l) > U64_MAX
    \/ /\ l.op = "Burn"
       /\ NamesRecords(l, {2}, 3)
       /\ AmountOf(l) > SupplyAt(l, 3)

\* C22: supply and balances stay within u64, and a Mint, transfer or Burn
\* whose arithmetic would leave u64 fails and leaves every supply and every
\* balance as it was.
C22_NoWraparound ==
    [][/\ \A t \in TokenSlots : token'[t].supply \in 0..U64_MAX
       /\ \A a \in AcctSlots : account'[a].amount \in 0..U64_MAX
       /\ LeavesU64(last') =>
            /\ last'.res # "Ok"
            /\ token' = token
            /\ account' = account]_vars

\* C22 witness: a Burn of no more than the source's balance but of more than
\* the supply of the token it names reached the arithmetic and aborted
C22_Witness ==
    /\ Invoked("Burn")
    /\ last.res = "Panic"
    /\ NamesRecords(last, {2}, 3)
    /\ AmountOf(last) <= BalanceAt(last, 2)
    /\ AmountOf(last) > SupplyAt(last, 3)

\* A Burn that its signer may make: the signer owns the source account, the
\* token is not paused, the account is not frozen
BurnAuthorized(l) ==
    /\ l.op = "Burn"
    /\ NamesRecords(l, {2}, 3)
    /\ l.accounts[1].is_signer
    /\ token[l.accounts[3].key].is_initialized
    /\ account[l.accounts[2].key].is_initialized
    /\ account[l.accounts[2].key].owner = l.accounts[1].key
    /\ ~token[l.accounts[3].key].is_paused
    /\ ~FrozenAt(l, 2)

\* C23: a Burn by the owner of the source on an unpaused token and an
\* unfrozen account fails with InsufficientFunds, changing nothing, when the
\* amount exceeds the balance, and takes exactly the amount from the supply
\* and from the balance when the amount exceeds neither.
C23_BurnArithmetic ==
    [][BurnAuthorized(last') =>
        LET s == last'.accounts[2].key
            t == last'.accounts[3].key
            amount == AmountOf(last')
        IN /\ amount > account[s].amount =>
                /\ last'.res = "InsufficientFunds"
                /\ token' = token
                /\ account' = account
           /\ amount <= account[s].amount /\ amount <= token[t].supply =>
                /\ last'.res = "Ok"
                /\ token' = [token EXCEPT ![t].supply = token[t].supply - amount]
                /\ account' = [account EXCEPT ![s].amount = account[s].amount - amount]]_vars

\* C23 witness: a Burn of more than a balance that is not zero was refused
C23_Witness ==
    /\ Invoked("Burn")
    /\ last.res = "InsufficientFunds"
    /\ BalanceAt(last, 2) > 0
    /\ AmountOf(last) > BalanceAt(last, 2)

\* C24: after a successful InitializeToken the token record it names is
\* program-owned and rent-exempt and unpacks as an initialized Token whose
\* owner, name, symbol, decimals, identity registry and compliance are the
\* ones supplied, with supply 0 and not paused.
C24_InitializedTokenFields ==
    Invoked("InitializeToken") /\ Succeeded =>
        /\ Acc(1).owner = program_id
        /\ Acc(1).exempt
        /\ Acc(1).key \in TokenSlots
        /\ unpack(Store, Acc(1), Token_LEN) = "Ok"
        /\ token[Acc(1).key] =
             [is_initialized |-> TRUE, owner |-> Acc(3).key,
              name |-> last.input[2], symbol |-> last.input[3],
              decimals |-> last.input[4], supply |-> 0, is_paused |-> FALSE,
              identity_registry |-> Acc(4).key, compliance |-> Acc(5).key]

\* C24 witness: InitializeToken succeeded for an owner other than the one of
\* the provisioned tokens
C24_Witness ==
    /\ Invoked("InitializeToken")
    /\ Succeeded
    /\ Acc(3).key = "bob"
    /\ token[Acc(1).key].owner = "bob"

\* The caller of a RegisterIdentity is the owner of the registry it names or
\* one of its agents; the registry keeps no roster, its owner is its one agent
RegistryAuthority(l) ==
    LET registry == RawOf(Store, l.accounts[2])
    IN registry.key = l.accounts[1].key

\* C25: RegisterIdentity succeeds only for a caller that signed and is the
\* owner or an agent of the registry; on program-owned registry and storage
\* accounts a missing signature is answered MissingRequiredSignature, and on
\* a registry that unpacks a signer that is neither owner nor agent is
\* answered Unauthorized.
C25_RegisterIdentityAuthority ==
    Invoked("RegisterIdentity") /\ Len(last.accounts) >= 4 =>
        /\ Succeeded => Acc(1).is_signer /\ RegistryAuthority(last)
        /\ Acc(2).owner = program_id /\ Acc(3).owner = program_id =>
             /\ ~Acc(1).is_signer => last.res = "MissingRequiredSignature"
             /\ /\ Acc(1).is_signer
                /\ unpack(Store, Acc(2), IdentityRegistry_LEN) = "Ok"
                /\ ~RegistryAuthority(last)
                => last.res = "Unauthorized"

\* C25 witness: a signer that is not the registry's owner asked to register
\* an identity and was refused
C25_Witness ==
    /\ Invoked("RegisterIdentity")
    /\ Len(last.accounts) >= 4
    /\ Acc(1).is_signer
    /\ ~RegistryAuthority(last)
    /\ last.res = "Unauthorized"

\* C26: once a RegisterIdentity has succeeded for an address, the registry
\* holds an identity for that address, which is what makes a second
\* RegisterIdentity for it fail with IdentityAlreadyExists.
C26_RegisteredIdentityExists ==
    Invoked("RegisterIdentity") /\ Succeeded =>
        identity_exists(RawOf(Store, Acc(2)), Acc(4).key)

\* The errors of the identity-and-compliance gate
GateErrors == {"TokenPaused", "AddressFrozen", "IdentityNotVerified", "TransferNotCompliant"}

\* The role check of the invocation as its handler makes it: the first
\* account owns the source of a Transfer or Burn, the Agent record of the
\* first account names an agent of the token of a ForcedTransfer or Mint
RoleCheckPasses(l) ==
    IF l.op \in {"Transfer", "Burn"}
    THEN account[l.accounts[2].key].owner = l.accounts[1].key
    ELSE is_agent(token[l.accounts[TokenPosition(l.op)].key],
                  RawOf(Store, l.accounts[1]).key)

\* C27: a Transfer, ForcedTransfer, Mint or Burn reports an error of the
\* identity-and-compliance gate only when its role check passes; one that
\* fails both reports InvalidOwner or InvalidAgent.
C27_AuthorizationBeforeGates ==
    /\ last.op \in {"Transfer", "ForcedTransfer", "Mint", "Burn"}
    /\ last.res \in GateErrors
    => RoleCheckPasses(last)

\* The token accounts a gated invocation moves a balance of: source and
\* destination of a transfer, destination of a Mint
MovedPositions(l) == IF l.op = "Mint" THEN {2} ELSE {2, 3}

\* C28: Transfer, ForcedTransfer and Mint report the earliest failed gate in
\* the order paused, frozen, identity, compliance: AddressFrozen only on a
\* token that is not paused, IdentityNotVerified only when moreover no account
\* involved is frozen, TransferNotCompliant only when moreover every owner
\* involved is verified.
C28_GateOrder ==
    /\ last.op \in {"Transfer", "ForcedTransfer", "Mint"}
    /\ last.res \in GateErrors \ {"TokenPaused"}
    => /\ ~token[Acc(TokenPosition(last.op)).key].is_paused
       /\ last.res \in {"IdentityNotVerified", "TransferNotCompliant"}
            => \A i \in MovedPositions(last) : ~FrozenAt(last, i)
       /\ last.res = "TransferNotCompliant"
            => \A i \in MovedPositions(last) : OwnerAt(last, i) \in policy.verified

\* The positions whose accounts the handler requires the program to own, and
\* those whose frozen flag, whose owner's identity and whose balance it tests
OwnedPositions(l) ==
    IF l.op \in {"Transfer", "ForcedTransfer"} THEN {2, 3, 4} ELSE {2, 3}
FreezeChecked(l) ==
    IF l.op = "Transfer" THEN {2, 3}
    ELSE IF l.op = "ForcedTransfer" THEN {}
    ELSE {2}
IdentityChecked(l) ==
    IF l.op \in {"Transfer", "ForcedTransfer"} THEN {2, 3}
    ELSE IF l.op = "Mint" THEN {2}
    ELSE {}

\* Every check the handler of the invocation makes passes on the records as
\* they are before the call
ChecksPass(l) ==
    /\ \A i \in OwnedPositions(l) : l.accounts[i].owner = program_id
    /\ l.accounts[1].is_signer
    /\ RoleCheckPasses(l)
    /\ ~token[l.accounts[TokenPosition(l.op)].key].is_paused
    /\ \A i \in FreezeChecked(l) : ~FrozenAt(l, i)
    /\ \A i \in IdentityChecked(l) :
          identity_gate(Store, l.accounts[TokenPosition(l.op) + 1].data, OwnerAt(l, i))
    /\ l.op \in {"Transfer", "ForcedTransfer"} =>
          compliance_gate(Store, l.accounts[6].data, OwnerAt(l, 2), OwnerAt(l, 3), AmountOf(l))
    /\ l.op # "Mint" => BalanceAt(l, 2) >= AmountOf(l)

\* C29: a Transfer, ForcedTransfer, Mint or Burn that changes a record
\* returns Ok, and every check of its handler passes on the records as they
\* were before the call: no check is made, or fails, after a write.
C29_ChecksBeforeWrites ==
    [][/\ last'.op \in {"Transfer", "ForcedTransfer", "Mint", "Burn"}
       /\ token' # token \/ account' # account
       => last'.res = "Ok" /\ ChecksPass(last')]_vars

\* C29 witness: a Transfer between two different accounts succeeded under a
\* policy that refuses some owners and some amounts, writing both records
C29_Witness ==
    /\ policy.plugged
    /\ policy.verified = Wallets
    /\ Invoked("Transfer")
    /\ Succeeded
    /\ Acc(2).key # Acc(3).key
    /\ BalanceAt(last, 3) > 0

\* C30: a Transfer or ForcedTransfer that names one TokenAccount record as
\* source and as destination, for an amount within its balance, leaves the
\* amount of that record as it was.
C30_SelfTransferKeepsBalance ==
    [][/\ last'.op \in {"Transfer", "ForcedTransfer"}
       /\ NamesRecords(last', {2, 3}, 4)
       /\ last'.accounts[2].key = last'.accounts[3].key
       /\ AmountOf(last') <= account[last'.accounts[2].key].amount
       => account'[last'.accounts[2].key].amount = account[last'.accounts[2].key].amount]_vars

\* C31: a Transfer, ForcedTransfer, Mint or Burn changes the amount only of
\* TokenAccount records that reference the Token record supplied to the
\* call.
C31_BalancesOfSuppliedToken ==
    [][last'.op \in {"Transfer", "ForcedTransfer", "Mint", "Burn"}
        => \A a \in AcctSlots :
              account'[a].amount # account[a].amount
                => account[a].token = last'.accounts[TokenPosition(last'.op)].key]_vars

\* The invocation names account a as the source it debits, or as the
\* destination it credits
Debits(l, a) ==
    /\ l.op \in {"Transfer", "ForcedTransfer", "Burn"}
    /\ Len(l.accounts) >= 2
    /\ l.accounts[2].key = a
Credits(l, a) ==
    \/ l.op \in {"Transfer", "ForcedTransfer"} /\ Len(l.accounts) >= 3 /\ l.accounts[3].key = a
    \/ l.op = "Mint" /\ Len(l.accounts) >= 2 /\ l.accounts[2].key = a

\* C32: every Transfer, ForcedTransfer or Burn that debits an account
\* without crediting it succeeds only for an amount within the account's
\* balance and then lowers the balance by exactly that amount, and leaves
\* it as it was when it fails; along any run of such operations the amounts
\* of the successful ones therefore add up to what the balance lost, which
\* is never more than the balance the run started with.
C32_NoDoubleSpend ==
    [][\A a \in AcctSlots :
          Debits(last', a) /\ ~Credits(last', a) =>
             /\ last'.res = "Ok" =>
                   /\ AmountOf(last') <= account[a].amount
                   /\ account'[a].amount = account[a].amount - AmountOf(last')
             /\ last'.res # "Ok" => account'[a].amount = account[a].amount]_vars

\* C32 witness: a ForcedTransfer to another account debited its source and
\* left it funds for a further debit
C32_Witness ==
    /\ Invoked("ForcedTransfer")
    /\ Succeeded
    /\ Acc(2).key # Acc(3).key
    /\ BalanceAt(last, 2) >= 1

\* The keys of the token accounts an invocation may change the amount of
MovedKeys(l) == {l.accounts[i].key : i \in MovedPositions(l)}

\* C33: a successful Transfer or ForcedTransfer changes nothing but the
\* amount of its source and of its destination; a successful Mint or Burn
\* changes nothing but the amount of its account and the supply of the token
\* it names.
C33_BalanceMovesFrame ==
    [][last'.op \in {"Transfer", "ForcedTransfer", "Mint", "Burn"} /\ last'.res = "Ok"
        => LET l == last'
               moved == IF l.op = "Burn" THEN {l.accounts[2].key} ELSE MovedKeys(l)
               named == l.accounts[TokenPosition(l.op)].key
           IN /\ \A a \in AcctSlots :
                    IF a \in moved
                    THEN account'[a] = [account[a] EXCEPT !.amount = account'[a].amount]
                    ELSE account'[a] = account[a]
              /\ \A t \in TokenSlots :
                    IF l.op \in {"Mint", "Burn"} /\ t = named
                    THEN token'[t] = [token[t] EXCEPT !.supply = token'[t].supply]
                    ELSE token'[t] = token[t]]_vars

\* C33 witness: a Burn succeeded and left funds on its source account
C33_Witness ==
    /\ Invoked("Burn")
    /\ Succeeded
    /\ BalanceAt(last, 2) > 0
    /\ SupplyAt(last, 3) < U64_MAX

\* The instructions other than InitializeToken, Transfer, ForcedTransfer,
\* Mint and Burn
NonLedgerOps ==
    {"Recover", "FreezeAddress", "UnfreezeAddress", "SetCompliance",
     "SetIdentityRegistry", "AddAgent", "RemoveAgent", "Pause", "Unpause",
     "RegisterIdentity", "UpdateIdentity", "UpdateCountry", "DeleteIdentity",
     "AddClaimTopic", "RemoveClaimTopic", "AddTrustedIssuer",
     "RemoveTrustedIssuer", "UpdateIssuerClaimTopics", "AddComplianceRule",
     "RemoveComplianceRule"}

Descriptor(tok) ==
    <<tok.owner, tok.identity_registry, tok.compliance, tok.name, tok.symbol, tok.decimals>>

=============================================================================
